---- MODULE Spec2Model ----
(***************************************************************************)
(* Price Analyzer backend: the aggregation pipeline of the /search and     *)
(* /compare endpoints (app/routers/products.py) with its collaborators:    *)
(* the Redis cache service, the RapidAPI fan-out search, the mock-data     *)
(* fallback, the Gemini sentiment / recommendation service and the scoring *)
(* service.                                                                *)
(*                                                                         *)
(* Units: prices are in cents, ratings in tenths of a star, sentiment      *)
(* scores in hundredths, the four scores in hundredths (0..1000 for 0..10).*)
(* An Optional value is a sequence of length at most one: <<>> is None.    *)
(***************************************************************************)
EXTENDS Integers, Sequences, FiniteSets, TLC

\* ---------------------------------------------------------------- bounds
\* Largest `limit` a request carries (the API admits 1..10 for /compare).
MaxLimit == 2
\* Largest number of raw items a source provider returns for one search.
MaxItems == 2

\* ------------------------------------------------------------- basic data
None == <<>>

Some(v) == <<v>>

\* Two request slots: a request is served alone or beside one equal request.
Req == {1, 2}

\* models.py: ProductSource
Sources == {"amazon", "ebay", "walmart"}

Range(seq) == {seq[i] : i \in 1 .. Len(seq)}

Min2(a, b) == IF a < b THEN a ELSE b

Max2(a, b) == IF a > b THEN a ELSE b

Take(seq, n) == SubSeq(seq, 1, Min2(n, Len(seq)))

\* Op applied to the value of x, with x evaluated once (TLC evaluates a LET
\* definition anew at each use when it evaluates ENABLED).
Value(x, Op(_)) == CHOOSE y \in {Op(v) : v \in {x}} : TRUE

RECURSIVE SumSeq(_)
SumSeq(seq) ==
    Value(seq, LAMBDA s : IF s = <<>> THEN 0 ELSE Head(s) + SumSeq(Tail(s)))

RECURSIVE Flatten(_)
Flatten(seqs) ==
    Value(seqs, LAMBDA s : IF s = <<>> THEN <<>> ELSE Head(s) \o Flatten(Tail(s)))

\* The quotient q with remainder r of a division by d, rounded to nearest, ties
\* to the even neighbour.
RoundHalfEven(q, r, d) ==
    IF 2 * r < d THEN q
    ELSE IF 2 * r > d THEN q + 1
    ELSE IF q % 2 = 0 THEN q ELSE q + 1

\* Python round(x, k) on the exact quotient n / d (d > 0): to nearest, ties to even.
RoundDiv(n, d) ==
    Value(n, LAMBDA v : IF v < 0 THEN -RoundHalfEven((-v) \div d, (-v) % d, d)
                        ELSE RoundHalfEven(v \div d, v % d, d))

\* The score left as it is, without min(10, max(0, score)).
ClampNot(n, d) == n

\* min(10, max(0, score)) on a quotient n / d of hundredths.
Clamp(n, d) ==
    Value(n, LAMBDA v : IF v < 0 THEN 0 ELSE IF v > 1000 * d THEN 1000 * d ELSE v)

\* ---------------------------------------------------------- cache service
\* What the cache store does when it is called: it answers, refuses the
\* connection, loses it, times out, or fails with another store error.
StoreConds == {"up", "refused", "lost", "timeout", "error"}

\* A call to the store under a condition: its answer, or the redis exception
\* it raises (TimeoutError and the other store errors are RedisError but not
\* ConnectionError).
Ping(cond) ==
    CASE cond = "up" -> "PONG"
      [] cond \in {"refused", "lost"} -> "ConnectionError"
      [] cond = "timeout" -> "TimeoutError"
      [] OTHER -> "RedisError"

\* is_connected that pings whatever _redis holds, without the guard on None.
IsConnectedRaisesUnguarded(client, cond) ==
    Ping(cond) \notin {"PONG", "ConnectionError"}

\* CacheService.is_connected raises: the ping of an existing client raises
\* something its except clause (redis.ConnectionError) does not catch.
IsConnectedRaises(client, cond) ==
    IF client = "None" THEN FALSE ELSE Ping(cond) \notin {"PONG", "ConnectionError"}

\* CacheService.is_connected: False while _redis is None, else the ping's answer.
IsConnected(client, cond) == IF client = "None" THEN FALSE ELSE Ping(cond) = "PONG"

\* CacheService.redis: the lazily created client (assigned before the first ping).
RedisProperty(client) == IF client = "None" THEN "client" ELSE client

\* _redis after a get / set / delete: the redis property is read only past the
\* is_connected guard.
ClientAfter(client, cond) ==
    IF IsConnected(client, cond) THEN RedisProperty(client) ELSE client

\* CacheService._make_key
MakeKey(prefix, identifier) == <<prefix>> \o identifier

\* CacheService.get: the value stored under the key, or None.
CacheGet(client, cond, store, prefix, identifier) ==
    IF ~IsConnected(client, cond) THEN None
    ELSE LET key == MakeKey(prefix, identifier)
         IN  IF key \in DOMAIN store THEN Some(store[key]) ELSE None

\* CacheService.set: the store after the call (setex under the key when connected).
CacheSet(client, cond, store, prefix, identifier, value) ==
    IF ~IsConnected(client, cond) THEN store
    ELSE (MakeKey(prefix, identifier) :> value) @@ store

\* The bool CacheService.set returns.
CacheSetOk(client, cond) == IsConnected(client, cond)

\* CacheService.delete: the store after the call and the bool returned.
CacheDelete(client, cond, store, prefix, identifier) ==
    LET key == MakeKey(prefix, identifier)
    IN  IF ~IsConnected(client, cond) THEN [store |-> store, deleted |-> FALSE]
        ELSE [store |-> [k \in DOMAIN store \ {key} |-> store[k]],
              deleted |-> key \in DOMAIN store]

\* CacheService.clear_prefix: the store after the call and the number of keys
\* deleted (the keys price_analyzer:<prefix>:*).
CacheClearPrefix(client, cond, store, prefix) ==
    LET keys == {k \in DOMAIN store : k[1] = prefix}
    IN  IF ~IsConnected(client, cond) THEN [store |-> store, deleted |-> 0]
        ELSE [store |-> [k \in DOMAIN store \ keys |-> store[k]],
              deleted |-> Cardinality(keys)]

\* CacheService.get_stats, by its "connected" entry.
CacheGetStats(client, cond) == [connected |-> IsConnected(client, cond)]

\* ------------------------------------------------------------- cache keys
\* The source values as sent, not sorted.
SortedValuesAsSent(sources) == sources

\* sorted(s.value for s in sources): the values in alphabetical order, repeats kept.
SortedValues(sources) ==
    SelectSeq(sources, LAMBDA s : s = "amazon")
        \o SelectSeq(sources, LAMBDA s : s = "ebay")
        \o SelectSeq(sources, LAMBDA s : s = "walmart")

\* ",".join(values)
JoinComma(values) ==
    IF values = <<>> THEN <<>>
    ELSE [i \in 1 .. (2 * Len(values) - 1) |->
            IF i % 2 = 1 THEN values[(i + 1) \div 2] ELSE ","]

\* compare_products: md5(f"{query}:{sources_str}:{limit}"), the digest taken as
\* the hashed text itself (md5 is treated as collision-free).
CompareCacheKey(query, sources, limit) ==
    query \o <<":">> \o JoinComma(SortedValues(sources)) \o <<":", ToString(limit)>>

\* str() of an Optional[float] inside an f-string.
OptStr(opt) == IF opt = None THEN "None" ELSE ToString(opt[1])

\* generate_search_cache_key
generate_search_cache_key(query, sources, min_price, max_price, limit) ==
    query \o <<":">> \o JoinComma(SortedValues(sources))
        \o <<":", OptStr(min_price), ":", OptStr(max_price), ":", ToString(limit)>>

\* ------------------------------------------------------ source providers
\* What a source provider answers to one search call.
ProviderOutcomes ==
    [kind : {"ok"}, n : 0 .. MaxItems]
        \cup {[kind |-> "http_error", n |-> 0], [kind |-> "bad_body", n |-> 0]}

\* The i-th raw item a provider lists for a source: its local id, its price text
\* already read as cents (None: a text normalize_price cannot read), rating, count.
RawItem(s, i) ==
    [sid |-> i,
     price |-> IF s = "walmart" /\ i = 2 THEN None
               ELSE IF s = "amazon" THEN Some(2000 + 1000 * i)
               ELSE IF s = "ebay" THEN Some(3500 - 500 * i)
               ELSE Some(2500 + 500 * i),
     rating |-> IF s = "ebay" THEN None ELSE Some(50 - 4 * i),
     review_count |-> IF s = "ebay" THEN None
                      ELSE IF s = "amazon" THEN Some(600 * i) ELSE Some(8 * i)]

\* RapidAPIService._generate_product_id: md5(source:identifier)[:16], collision-free.
GenerateProductId(s, sid) == <<"live", s, sid, 0>>

\* The Product built from one raw item (search_amazon / search_ebay / search_walmart).
ToProduct(s, item) ==
    [id |-> GenerateProductId(s, item.sid),
     title |-> <<s, item.sid>>,
     price |-> item.price[1],
     source |-> s,
     rating |-> item.rating,
     review_count |-> item.review_count]

\* The loop over items[:limit]: an item without a price is skipped.
RECURSIVE ItemsToProducts(_, _, _, _)
ItemsToProducts(s, i, n, acc) ==
    IF i > n THEN acc
    ELSE Value(IF RawItem(s, i).price = None THEN acc
               ELSE Append(acc, ToProduct(s, RawItem(s, i))),
               LAMBDA next : ItemsToProducts(s, i + 1, n, next))

\* One source task: an httpx.HTTPError is caught and gives [], any other
\* exception (a body that is not the expected JSON) leaves the task raising.
SearchSource(s, resp, limit) ==
    IF resp.kind = "http_error" THEN [st |-> "list", items |-> <<>>]
    ELSE IF resp.kind = "bad_body" THEN [st |-> "exc", items |-> <<>>]
    ELSE [st |-> "list", items |-> ItemsToProducts(s, 1, Min2(resp.n, limit), <<>>)]

\* The tasks appended in the order the sources were requested in.
TaskOrderAsRequested(sources) == sources

\* search_all: the tasks appended in the fixed order amazon, ebay, walmart.
TaskOrder(sources) ==
    SelectSeq(<<"amazon", "ebay", "walmart">>, LAMBDA s : s \in Range(sources))

\* Variant: gather without return_exceptions, which re-raises a task's exception.
\* C4 must be sensitive to it.
GatherPropagating(results) ==
    [raised |-> \E i \in 1 .. Len(results) : results[i].st = "exc", results |-> results]

\* What asyncio.gather(*tasks, return_exceptions=True) hands back once every task
\* has settled: the results in task order, exceptions included as values.
GatherResults(results) == [raised |-> FALSE, results |-> results]

\* Variant: a merge loop that stops at the first exception among the results.
\* C5 must be sensitive to it.
MergeUntilError(results) ==
    LET bad == {i \in 1 .. Len(results) : results[i].st # "list"}
        stop == IF bad = {} THEN Len(results) + 1
                ELSE CHOOSE i \in bad : \A j \in bad : i <= j
    IN  Flatten([i \in 1 .. (stop - 1) |-> results[i].items])

\* The loop over results: lists are extended into products, exceptions logged.
MergeResults(results) ==
    Flatten([i \in 1 .. Len(results) |->
                IF results[i].st = "list" THEN results[i].items ELSE <<>>])

\* search_all from the gather on: the merged list, or the exception it raises.
SearchAll(sources, taskOf) ==
    LET order == TaskOrder(sources)
        g == GatherResults([i \in 1 .. Len(order) |-> taskOf[order[i]]])
    IN  IF order = <<>> THEN [raised |-> FALSE, products |-> <<>>]
        ELSE IF g.raised THEN [raised |-> TRUE, products |-> <<>>]
        ELSE [raised |-> FALSE, products |-> MergeResults(g.results)]

\* Variant: a barrier that waits for a task of every source, requested or not.
\* C3 must be sensitive to it.
AllSettledEverySource(sources, taskOf) ==
    \A s \in Sources : taskOf[s].st \in {"list", "exc"}

\* Variant: a barrier that returns once the first task has settled.
\* C6 must be sensitive to it.
AllSettledFirst(sources, taskOf) ==
    \A s \in Range(Take(TaskOrder(sources), 1)) : taskOf[s].st \in {"list", "exc"}

\* The barrier of asyncio.gather: every task of the request has settled.
AllSettled(sources, taskOf) ==
    \A s \in Range(TaskOrder(sources)) : taskOf[s].st \in {"list", "exc"}

\* ----------------------------------------------------------- mock service
\* str.lower() on a query, word by word.
LowerWord(w) == IF w = "Laptop" THEN "laptop" ELSE w

Lower(query) == [i \in 1 .. Len(query) |-> LowerWord(query[i])]

\* `key in query_lower`: the key occurs as a run of consecutive words.
Contains(query, key) ==
    \E i \in 0 .. (Len(query) - Len(key)) :
        \A j \in 1 .. Len(key) : query[i + j] = key[j]

\* The keys of MOCK_PRODUCTS in dict order.
MockKeys == <<(<<"wireless", "headphones">>), (<<"laptop", "stand">>), (<<"default">>)>>

MockItem(price, rating, count, src) ==
    [price |-> price, rating |-> rating, review_count |-> count, source |-> src]

\* MOCK_PRODUCTS
MOCK_PRODUCTS(key) ==
    IF key = <<"wireless", "headphones">> THEN
        <<MockItem(34800, 47, 12543, "amazon"), MockItem(44900, 46, 8234, "amazon"),
          MockItem(37900, 45, 5621, "ebay"), MockItem(29995, 44, 3456, "walmart"),
          MockItem(7995, 43, 7892, "walmart")>>
    ELSE IF key = <<"laptop", "stand">> THEN
        <<MockItem(4990, 47, 15234, "amazon"), MockItem(5999, 46, 4521, "amazon"),
          MockItem(2999, 45, 8765, "ebay"), MockItem(1999, 43, 23456, "walmart")>>
    ELSE
        <<MockItem(14999, 48, 5432, "amazon"), MockItem(7999, 45, 8765, "ebay"),
          MockItem(3999, 42, 12345, "walmart"), MockItem(24999, 46, 3456, "amazon"),
          MockItem(2499, 40, 6789, "ebay")>>

\* The first key of MOCK_PRODUCTS contained in the lowered query, else "default".
MockKeyFor(query) ==
    LET hits == SelectSeq(MockKeys, LAMBDA k : Contains(Lower(query), k))
    IN  IF hits = <<>> THEN <<"default">> ELSE Head(hits)

\* hash(query) % 10000: fixed for a query within one process.
QueryHash(query) == (Len(query) * 31 + (IF Lower(query) = query THEN 7 ELSE 11)) % 10000

\* Variant: get_mock_products without its source filter. C7 must be sensitive to it.
RECURSIVE MockPicksAnySource(_, _, _, _, _)
MockPicksAnySource(data, sources, limit, i, acc) ==
    IF i > Len(data) THEN acc
    ELSE Value(IF Len(acc) < limit THEN Append(acc, i - 1) ELSE acc,
               LAMBDA next : MockPicksAnySource(data, sources, limit, i + 1, next))

\* The indices (0-based, as enumerate gives them) of the items get_mock_products
\* keeps: the item's source is requested and fewer than `limit` are kept so far.
RECURSIVE MockPicks(_, _, _, _, _)
MockPicks(data, sources, limit, i, acc) ==
    IF i > Len(data) THEN acc
    ELSE Value(IF data[i].source \in Range(sources) /\ Len(acc) < limit
               THEN Append(acc, i - 1) ELSE acc,
               LAMBDA next : MockPicks(data, sources, limit, i + 1, next))

\* The values random.uniform(-5, 5) is drawn from, in cents.
Jitter == {-250, 250}

\* get_mock_products: jit[k] is the random.uniform draw for the k-th kept item.
GetMockProducts(query, sources, limit, jit) ==
    LET data == MOCK_PRODUCTS(MockKeyFor(query))
        Build(picks) ==
            [k \in 1 .. Len(picks) |->
                LET item == data[picks[k] + 1]
                IN  [id |-> <<"mock", item.source, picks[k], QueryHash(query)>>,
                     title |-> <<"mock", picks[k]>>,
                     price |-> item.price + jit[k],
                     source |-> item.source,
                     rating |-> Some(item.rating),
                     review_count |-> Some(item.review_count)]]
    IN  Value(MockPicks(data, sources, limit, 1, <<>>), Build)

\* How many items get_mock_products keeps: the length of the jitter draw.
MockCount(query, sources, limit) ==
    Len(MockPicks(MOCK_PRODUCTS(MockKeyFor(query)), sources, limit, 1, <<>>))

\* MOCK_REVIEWS: the ratings, in list order.
MOCK_REVIEWS ==
    [i \in 1 .. 10 |->
        [rid |-> i, rating |-> <<50, 40, 50, 30, 50, 35, 50, 45, 35, 50>>[i]]]

\* The orders random.sample may return: rotations of the list by these offsets.
Shuffles == {0, 3}

\* get_mock_reviews: random.sample(MOCK_REVIEWS, min(limit, len(MOCK_REVIEWS))).
GetMockReviews(limit, shuffle) ==
    LET n == Len(MOCK_REVIEWS)
    IN  [i \in 1 .. Min2(limit, n) |-> MOCK_REVIEWS[((i - 1 + shuffle) % n) + 1]]

Sentiment(label, score, pros, cons, origin) ==
    [overall_sentiment |-> label, sentiment_score |-> score,
     pros |-> pros, cons |-> cons, origin |-> origin]

\* MOCK_SENTIMENTS (pros and cons by their number of entries).
MOCK_SENTIMENTS ==
    <<Sentiment("positive", 85, 4, 2, "mock"), Sentiment("positive", 72, 3, 2, "mock"),
      Sentiment("positive", 65, 3, 2, "mock"), Sentiment("neutral", 45, 2, 3, "mock")>>

\* get_mock_sentiment: random.choice(MOCK_SENTIMENTS), pick being the draw.
GetMockSentiment(pick) == MOCK_SENTIMENTS[pick]

\* ---------------------------------------------------------- review provider
\* What the review provider answers: n reviews, an HTTP error, a bad body.
ReviewOutcomes ==
    {[kind |-> "ok", n |-> 12], [kind |-> "http_error", n |-> 0],
     [kind |-> "bad_body", n |-> 0]}

\* fetch_amazon_reviews: reviews[:limit] of the answer; [] on an httpx.HTTPError;
\* any other exception is raised to the caller.
FetchAmazonReviews(resp, limit) ==
    IF resp.kind = "http_error" THEN [raised |-> FALSE, reviews |-> <<>>]
    ELSE IF resp.kind = "bad_body" THEN [raised |-> TRUE, reviews |-> <<>>]
    ELSE [raised |-> FALSE,
          reviews |-> [i \in 1 .. Min2(resp.n, limit) |->
                          [rid |-> 100 + i, rating |-> IF i % 2 = 1 THEN 50 ELSE 20]]]

\* ------------------------------------------------------------ gemini service
\* What the text-generation provider answers to a sentiment prompt.
GeminiOutcomes == {"ok_positive", "bad_json", "api_error"}

\* GeminiService._fallback_sentiment_analysis: from the average rating alone.
FallbackSentimentAnalysis(reviews) ==
    IF reviews = <<>> THEN Sentiment("neutral", 0, 0, 0, "fallback_empty")
    ELSE LET n == Len(reviews)
             total == SumSeq([i \in 1 .. n |-> reviews[i].rating])
         IN  Sentiment(IF total >= 40 * n THEN "positive"
                       ELSE IF total >= 25 * n THEN "neutral" ELSE "negative",
                       RoundDiv(100 * (total - 25 * n), 25 * n), 1, 1, "fallback")

\* GeminiService.analyze_sentiment: neutral without reviews; the provider's parsed
\* answer; the rating fallback on a JSON error or any other exception.
AnalyzeSentiment(reviews, outcome) ==
    IF reviews = <<>> THEN Sentiment("neutral", 0, 0, 0, "no_reviews")
    ELSE IF outcome = "ok_positive" THEN Sentiment("positive", 80, 3, 1, "gemini")
    ELSE FallbackSentimentAnalysis(reviews)

\* What the provider answers to a recommendation prompt.
RecommendOutcomes == {"ok", "api_error"}

\* generate_recommendation whose fallback sentence names the last entry of
\* products_data instead of the one with the highest value_score.
GenerateRecommendationLast(data, outcome) ==
    IF data = <<>> THEN [kind |-> "no_products", title |-> None]
    ELSE IF outcome = "ok" THEN [kind |-> "gemini", title |-> None]
    ELSE [kind |-> "template", title |-> Some(data[Len(data)].title)]

\* GeminiService.generate_recommendation over products_data (the top scored
\* products): the provider's text, or on any exception the sentence naming the
\* entry with the highest value_score (the first of those, as max() scans).
GenerateRecommendation(data, outcome) ==
    IF data = <<>> THEN [kind |-> "no_products", title |-> None]
    ELSE IF outcome = "ok" THEN [kind |-> "gemini", title |-> None]
    ELSE LET best == CHOOSE i \in 1 .. Len(data) :
                        /\ \A j \in 1 .. Len(data) : data[j].value_score <= data[i].value_score
                        /\ \A j \in 1 .. (i - 1) : data[j].value_score < data[i].value_score
         IN  [kind |-> "template", title |-> Some(data[best].title)]

\* ------------------------------------------------------------ scoring service
\* Settings: PRICE_WEIGHT, REVIEW_WEIGHT, QUALITY_WEIGHT, in hundredths.
PRICE_WEIGHT == 35

REVIEW_WEIGHT == 35

QUALITY_WEIGHT == 30

\* The price normalised directly, (price - min) / (max - min), not inverted.
calculate_price_score_direct(price, min_price, max_price) ==
    IF max_price = min_price THEN 750
    ELSE LET d == max_price - min_price
         IN  RoundDiv(Clamp((price - min_price) * 1000, d), d)

\* ScoringService.calculate_price_score
calculate_price_score(price, min_price, max_price) ==
    IF max_price = min_price THEN 750
    ELSE LET d == max_price - min_price
         IN  RoundDiv(Clamp((max_price - price) * 1000, d), d)

\* A volume modifier of 1.0 whatever the review count.
VolumeModifierFlat(review_count) == 100

\* A volume modifier that treats a missing review count as a low one.
VolumeModifierNoCountLow(review_count) ==
    IF review_count = None THEN 90
    ELSE IF review_count[1] >= 1000 THEN 115
    ELSE IF review_count[1] >= 500 THEN 110
    ELSE IF review_count[1] >= 100 THEN 105
    ELSE IF review_count[1] >= 10 THEN 100
    ELSE 90

\* The volume-confidence modifier of calculate_review_score, in hundredths.
VolumeModifier(review_count) ==
    IF review_count = None THEN 100
    ELSE IF review_count[1] >= 1000 THEN 115
    ELSE IF review_count[1] >= 500 THEN 110
    ELSE IF review_count[1] >= 100 THEN 105
    ELSE IF review_count[1] >= 10 THEN 100
    ELSE 90

\* ScoringService.calculate_review_score
calculate_review_score(rating, review_count, sentiment) ==
    LET base == IF rating = None THEN 500 ELSE rating[1] * 20
        adj == IF sentiment = None THEN 0 ELSE sentiment[1].sentiment_score * 50
    IN  RoundDiv(Clamp(base * VolumeModifier(review_count) + adj, 100), 100)

\* A quality score in which a missing signal counts as 0: the sum of the
\* signals divided by three whenever one of them is available.
calculate_quality_score_of_three(sentiment, quality_indicators) ==
    LET hasS == sentiment # None
        procon == IF hasS THEN sentiment[1].pros + sentiment[1].cons ELSE 0
        q == IF quality_indicators = None THEN <<>> ELSE quality_indicators[1]
        Ind(key) == IF key \in DOMAIN q THEN q[key] ELSE 0
        k == Cardinality({key \in {"durability", "performance", "build_quality",
                                   "value_for_money"} : key \in DOMAIN q})
        dR == IF procon > 0 THEN procon ELSE 1
        dI == IF k > 0 THEN k ELSE 1
        num == (IF hasS THEN (sentiment[1].sentiment_score + 100) * 5 * dR * dI ELSE 0)
                  + (IF procon > 0 THEN 1000 * sentiment[1].pros * dI ELSE 0)
                  + (IF k > 0 THEN 10 * (Ind("durability") + Ind("performance")
                        + Ind("build_quality") + Ind("value_for_money")) * dR ELSE 0)
    IN  IF ~hasS /\ k = 0 THEN 500
        ELSE RoundDiv(Clamp(num, dR * dI * 3), dR * dI * 3)

\* The keys calculate_quality_score reads in quality_indicators.
QualityKeys == {"durability", "performance", "build_quality", "value_for_money"}

\* ScoringService.calculate_quality_score: the mean of the sentiment signal, of
\* the pros ratio when there are pros or cons, and of the mean indicator when
\* quality_indicators holds one of the four keys (values in hundredths); 5.0 when
\* there is none of them. The three terms are summed over a common denominator.
calculate_quality_score(sentiment, quality_indicators) ==
    LET hasS == sentiment # None
        pros == IF hasS THEN sentiment[1].pros ELSE 0
        procon == IF hasS THEN sentiment[1].pros + sentiment[1].cons ELSE 0
        hasR == procon > 0
        q == IF quality_indicators = None THEN <<>> ELSE quality_indicators[1]
        Ind(key) == IF key \in DOMAIN q THEN q[key] ELSE 0
        k == Cardinality({key \in QualityKeys : key \in DOMAIN q})
        hasI == k > 0
        total == Ind("durability") + Ind("performance") + Ind("build_quality")
                    + Ind("value_for_money")
        dR == IF hasR THEN procon ELSE 1
        dI == IF hasI THEN k ELSE 1
        n == (IF hasS THEN 1 ELSE 0) + (IF hasR THEN 1 ELSE 0) + (IF hasI THEN 1 ELSE 0)
        num == (IF hasS THEN (sentiment[1].sentiment_score + 100) * 5 * dR * dI ELSE 0)
                  + (IF hasR THEN 1000 * pros * dI ELSE 0)
                  + (IF hasI THEN 10 * total * dR ELSE 0)
    IN  IF n = 0 THEN 500
        ELSE RoundDiv(Clamp(num, dR * dI * n), dR * dI * n)

\* The plain mean of the three scores, without the weights.
calculate_value_score_mean(price_score, review_score, quality_score) ==
    RoundDiv(price_score + review_score + quality_score, 3)

\* ScoringService.calculate_value_score
calculate_value_score(price_score, review_score, quality_score) ==
    RoundDiv(price_score * PRICE_WEIGHT + review_score * REVIEW_WEIGHT
                + quality_score * QUALITY_WEIGHT, 100)

\* dict.get(key, default)
MapGet(map, key, default) == IF key \in DOMAIN map THEN map[key] ELSE default

\* ScoringService.score_product
score_product(product, min_price, max_price, reviews, sentiment, quality_indicators) ==
    LET Scored(ps, rs, qs) ==
            [id |-> product.id, title |-> product.title, price |-> product.price,
             source |-> product.source, rating |-> product.rating,
             review_count |-> product.review_count,
             reviews |-> reviews, sentiment |-> sentiment,
             value_score |-> calculate_value_score(ps, rs, qs),
             price_score |-> ps, review_score |-> rs, quality_score |-> qs]
    IN  Value(calculate_price_score(product.price, min_price, max_price), LAMBDA ps :
        Value(calculate_review_score(product.rating, product.review_count, sentiment),
              LAMBDA rs :
        Value(calculate_quality_score(sentiment, quality_indicators),
              LAMBDA qs : Scored(ps, rs, qs))))

\* The list left in the order given, not sorted.
SortNot(seq, keys) == seq

\* list.sort(key=..., reverse=True) with keys[i] the key of seq[i]: stable, so
\* elements with equal keys keep their order.
SortDescBy(seq, keys) ==
    LET Sorted(s, ks) ==
            LET rank(i) == 1 + Cardinality({j \in 1 .. Len(s) :
                                ks[j] > ks[i] \/ (ks[j] = ks[i] /\ j < i)})
            IN  [k \in 1 .. Len(s) |-> s[CHOOSE i \in 1 .. Len(s) : rank(i) = k]]
    IN  Value(seq, LAMBDA s : Value(keys, LAMBDA ks : Sorted(s, ks)))

ValueKey(p) == p.value_score

\* ScoringService.score_products; quality_map is None or a dict by product id.
score_products(products, reviews_map, sentiments_map, quality_map) ==
    IF products = <<>> THEN <<>>
    ELSE LET prices == {products[i].price : i \in 1 .. Len(products)}
             ScoreAll(min_price, max_price) ==
                 [i \in 1 .. Len(products) |->
                     score_product(products[i], min_price, max_price,
                         MapGet(reviews_map, products[i].id, <<>>),
                         IF products[i].id \in DOMAIN sentiments_map
                         THEN Some(sentiments_map[products[i].id]) ELSE None,
                         IF quality_map # None /\ DOMAIN quality_map[1] # {}
                               /\ products[i].id \in DOMAIN quality_map[1]
                         THEN Some(quality_map[1][products[i].id]) ELSE None)]
         IN  Value(CHOOSE m \in prices : \A x \in prices : m <= x, LAMBDA min_price :
             Value(CHOOSE m \in prices : \A x \in prices : m >= x, LAMBDA max_price :
             Value(ScoreAll(min_price, max_price), LAMBDA scored :
                 SortDescBy(scored, [i \in 1 .. Len(scored) |-> scored[i].value_score]))))

\* The last element attaining the largest key, not the first.
MaxByLast(products, keys) ==
    products[CHOOSE i \in 1 .. Len(products) :
                /\ \A j \in 1 .. Len(products) : keys[j] <= keys[i]
                /\ \A j \in (i + 1) .. Len(products) : keys[j] < keys[i]]

\* max(products, key=...) with keys[i] the key of products[i]: the first element
\* attaining the largest key.
MaxBy(products, keys) ==
    products[CHOOSE i \in 1 .. Len(products) :
                /\ \A j \in 1 .. Len(products) : keys[j] <= keys[i]
                /\ \A j \in 1 .. (i - 1) : keys[j] < keys[i]]

PriceKey(p) == p.price_score

QualityKey(p) == p.quality_score

\* ScoringService.get_best_products
get_best_products(products) ==
    IF products = <<>>
    THEN [best_value |-> None, best_price |-> None, best_quality |-> None]
    ELSE LET n == Len(products)
         IN  [best_value |-> Some(MaxBy(products, [i \in 1 .. n |-> ValueKey(products[i])])),
              best_price |-> Some(MaxBy(products, [i \in 1 .. n |-> PriceKey(products[i])])),
              best_quality |->
                  Some(MaxBy(products, [i \in 1 .. n |-> QualityKey(products[i])]))]

\* ----------------------------------------------------------- price normalizer
\* A text is a sequence of one-character strings.  The whitespace, digits and
\* letters below are the ASCII ones.

WhiteSpace == {" "}

DigitChars == <<"0", "1", "2", "3", "4", "5", "6", "7", "8", "9">>

\* The character as re.IGNORECASE compares it.
LowerOf(c) ==
    LET UpperChars ==
            <<"A", "B", "C", "D", "E", "F", "G", "H", "I", "J", "K", "L", "M",
              "N", "O", "P", "Q", "R", "S", "T", "U", "V", "W", "X", "Y", "Z">>
        LowerChars ==
            <<"a", "b", "c", "d", "e", "f", "g", "h", "i", "j", "k", "l", "m",
              "n", "o", "p", "q", "r", "s", "t", "u", "v", "w", "x", "y", "z">>
    IN  IF c \in Range(UpperChars)
        THEN LowerChars[CHOOSE i \in 1 .. Len(UpperChars) : UpperChars[i] = c]
        ELSE c

\* str.strip()
Strip(text) ==
    LET kept == {i \in 1 .. Len(text) : text[i] \notin WhiteSpace}
    IN  IF kept = {} THEN <<>>
        ELSE SubSeq(text, CHOOSE i \in kept : \A j \in kept : i <= j,
                          CHOOSE i \in kept : \A j \in kept : j <= i)

\* `word in text`
HasSub(text, word) ==
    \E i \in 1 .. (Len(text) - Len(word) + 1) : SubSeq(text, i, i + Len(word) - 1) = word

\* text.replace(word, ""), word not empty
RECURSIVE Remove(_, _)
Remove(text, word) ==
    IF Len(text) < Len(word) THEN text
    ELSE IF SubSeq(text, 1, Len(word)) = word
         THEN Remove(SubSeq(text, Len(word) + 1, Len(text)), word)
         ELSE <<text[1]>> \o Remove(Tail(text), word)

\* text.replace(c, by) for one-character strings
ReplaceChar(text, c, by) == [i \in 1 .. Len(text) |-> IF text[i] = c THEN by ELSE text[i]]

\* text.count(c)
Count(text, c) == Cardinality({i \in 1 .. Len(text) : text[i] = c})

\* text.rfind(c), counting positions from 1 and giving 0 when c does not occur
RFind(text, c) ==
    LET at == {i \in 1 .. Len(text) : text[i] = c}
    IN  IF at = {} THEN 0 ELSE CHOOSE i \in at : \A j \in at : j <= i

\* The pattern `word` matches at the start of text, letters compared without case.
StartsWith(text, word) ==
    /\ Len(word) <= Len(text)
    /\ \A i \in 1 .. Len(word) : LowerOf(text[i]) = LowerOf(word[i])

\* The pattern `word$` matches at the end of text, letters compared without case.
EndsWith(text, word) ==
    /\ Len(word) <= Len(text)
    /\ \A i \in 1 .. Len(word) :
          LowerOf(text[Len(text) - Len(word) + i]) = LowerOf(word[i])

\* text with every run of whitespace but its first character dropped
RECURSIVE Squeeze(_)
Squeeze(text) ==
    IF Len(text) <= 1 THEN text
    ELSE IF text[1] \in WhiteSpace /\ text[2] \in WhiteSpace THEN Squeeze(Tail(text))
         ELSE <<text[1]>> \o Squeeze(Tail(text))

\* ' '.join(text.split())
JoinSplit(text) ==
    Strip([i \in 1 .. Len(Squeeze(text)) |->
              IF Squeeze(text)[i] \in WhiteSpace THEN " " ELSE Squeeze(text)[i]])

\* re.sub(r'^(from|starting at|price:|now)\s*', '', text, flags=re.IGNORECASE)
DropPrefix(text) ==
    LET PricePrefixes ==
            << <<"f", "r", "o", "m">>,
               <<"s", "t", "a", "r", "t", "i", "n", "g", " ", "a", "t">>,
               <<"p", "r", "i", "c", "e", ":">>,
               <<"n", "o", "w">> >>
        hits == {k \in 1 .. Len(PricePrefixes) : StartsWith(text, PricePrefixes[k])}
    IN  IF hits = {} THEN text
        ELSE LET k == CHOOSE i \in hits : \A j \in hits : i <= j
                 rest == SubSeq(text, Len(PricePrefixes[k]) + 1, Len(text))
                 kept == {i \in 1 .. Len(rest) : rest[i] \notin WhiteSpace}
             IN  IF kept = {} THEN <<>>
                 ELSE SubSeq(rest, CHOOSE i \in kept : \A j \in kept : i <= j, Len(rest))

\* re.sub(r'\s*(per unit|each|/ea)$', '', text, flags=re.IGNORECASE)
DropSuffix(text) ==
    LET PriceSuffixes ==
            << <<"p", "e", "r", " ", "u", "n", "i", "t">>,
               <<"e", "a", "c", "h">>,
               <<"/", "e", "a">> >>
        hits == {k \in 1 .. Len(PriceSuffixes) : EndsWith(text, PriceSuffixes[k])}
    IN  IF hits = {} THEN text
        ELSE LET k == CHOOSE i \in hits : \A j \in hits : i <= j
                 rest == SubSeq(text, 1, Len(text) - Len(PriceSuffixes[k]))
                 kept == {i \in 1 .. Len(rest) : rest[i] \notin WhiteSpace}
             IN  IF kept = {} THEN <<>>
                 ELSE SubSeq(rest, 1, CHOOSE i \in kept : \A j \in kept : j <= i)

clean_price_string(price_str) ==
    IF price_str = <<>> THEN <<>>
    ELSE JoinSplit(DropSuffix(DropPrefix(Strip(price_str))))

\* The symbols in the order the dictionary is iterated, which is the order it
\* is written in.
CURRENCY_SYMBOLS ==
    << [symbol |-> <<"$">>, code |-> "USD"],
       [symbol |-> <<"€">>, code |-> "EUR"],
       [symbol |-> <<"£">>, code |-> "GBP"],
       [symbol |-> <<"¥">>, code |-> "JPY"],
       [symbol |-> <<"₹">>, code |-> "INR"],
       [symbol |-> <<"C", "$">>, code |-> "CAD"],
       [symbol |-> <<"A", "$">>, code |-> "AUD"],
       [symbol |-> <<"₽">>, code |-> "RUB"],
       [symbol |-> <<"R", "$">>, code |-> "BRL"],
       [symbol |-> <<"₩">>, code |-> "KRW"] >>

\* The alternatives of iso_pattern, in their order.
IsoCodes ==
    << [symbol |-> <<"U", "S", "D">>, code |-> "USD"],
       [symbol |-> <<"E", "U", "R">>, code |-> "EUR"],
       [symbol |-> <<"G", "B", "P">>, code |-> "GBP"],
       [symbol |-> <<"J", "P", "Y">>, code |-> "JPY"],
       [symbol |-> <<"I", "N", "R">>, code |-> "INR"],
       [symbol |-> <<"C", "A", "D">>, code |-> "CAD"],
       [symbol |-> <<"A", "U", "D">>, code |-> "AUD"],
       [symbol |-> <<"R", "U", "B">>, code |-> "RUB"],
       [symbol |-> <<"B", "R", "L">>, code |-> "BRL"],
       [symbol |-> <<"K", "R", "W">>, code |-> "KRW"] >>

\* Rates to USD, in hundred-thousandths.
EXCHANGE_RATES_TO_USD ==
    [code \in {e.code : e \in Range(IsoCodes)} |->
        CASE code = "USD" -> 100000
          [] code = "EUR" -> 108000
          [] code = "GBP" -> 127000
          [] code = "JPY" -> 670
          [] code = "INR" -> 1200
          [] code = "CAD" -> 74000
          [] code = "AUD" -> 65000
          [] code = "RUB" -> 1100
          [] code = "BRL" -> 20000
          [] code = "KRW" -> 75]

\* EXCHANGE_RATES_TO_USD.get(code, 1.0)
RateOf(code) ==
    IF code \in DOMAIN EXCHANGE_RATES_TO_USD THEN EXCHANGE_RATES_TO_USD[code] ELSE 100000

\* The first entry of `table` for which hit[k] holds, if any.
FirstHit(table, hit) ==
    LET hits == {k \in 1 .. Len(table) : hit[k]}
    IN  IF hits = {} THEN None ELSE Some(table[CHOOSE i \in hits : \A j \in hits : i <= j])

\* detect_currency: the currency code and the text left for the number.
detect_currency(price_str) ==
    LET cleaned == clean_price_string(price_str)
        bySymbol == FirstHit(CURRENCY_SYMBOLS,
                             [k \in 1 .. Len(CURRENCY_SYMBOLS) |->
                                 HasSub(cleaned, CURRENCY_SYMBOLS[k].symbol)])
        byCode == FirstHit(IsoCodes,
                           [k \in 1 .. Len(IsoCodes) |-> StartsWith(cleaned, IsoCodes[k].symbol)])
    IN  IF bySymbol # None
        THEN [code |-> bySymbol[1].code,
              cleaned |-> Strip(Remove(cleaned, bySymbol[1].symbol))]
        ELSE IF byCode # None
        THEN [code |-> byCode[1].code,
              cleaned |-> Strip(SubSeq(cleaned, Len(byCode[1].symbol) + 1, Len(cleaned)))]
        ELSE [code |-> "USD", cleaned |-> cleaned]

RECURSIVE Pow10(_)
Pow10(k) == IF k = 0 THEN 1 ELSE 10 * Pow10(k - 1)

\* The number mant / 10^exp, written with the fewest decimals, so that equal
\* numbers are equal records.
RECURSIVE Number(_, _)
Number(mant, exp) ==
    IF exp > 0 /\ mant % 10 = 0 THEN Number(mant \div 10, exp - 1)
    ELSE [mant |-> mant, exp |-> exp]

\* -x
Negated(x) == [mant |-> -x.mant, exp |-> x.exp]

\* The number a sequence of decimal digits writes.
RECURSIVE DigitsValue(_)
DigitsValue(digits) ==
    IF digits = <<>> THEN 0
    ELSE 10 * DigitsValue(SubSeq(digits, 1, Len(digits) - 1))
         + ((CHOOSE i \in 1 .. 10 : DigitChars[i] = digits[Len(digits)]) - 1)

\* float("") and the like give 0.0 and raise nothing.
FloatLenient(text) ==
    LET body == IF text # <<>> /\ text[1] = "-" THEN Tail(text) ELSE text
        digits == SelectSeq(body, LAMBDA c : c \in Range(DigitChars))
    IN  IF (\E i \in 1 .. Len(body) : body[i] \notin Range(DigitChars) \cup {"."})
           \/ Count(body, ".") > 1
        THEN None
        ELSE LET x == Number(DigitsValue(digits),
                             IF Count(body, ".") = 0 THEN 0 ELSE Len(body) - RFind(body, "."))
             IN  Some(IF body # text THEN Negated(x) ELSE x)

\* float(text) inside try/except ValueError, for a text of digits, '.' and '-':
\* the number, or None where float raises.  The text is a number when it is an
\* optional leading '-', then digits with at most one '.', at least one digit.
Float(text) ==
    LET body == IF text # <<>> /\ text[1] = "-" THEN Tail(text) ELSE text
        digits == SelectSeq(body, LAMBDA c : c \in Range(DigitChars))
    IN  IF (\E i \in 1 .. Len(body) : body[i] \notin Range(DigitChars) \cup {"."})
           \/ Count(body, ".") > 1
           \/ digits = <<>>
        THEN None
        ELSE LET x == Number(DigitsValue(digits),
                             IF Count(body, ".") = 0 THEN 0 ELSE Len(body) - RFind(body, "."))
             IN  Some(IF body # text THEN Negated(x) ELSE x)

\* cleaned.lstrip('-')
LStripMinus(text) ==
    LET kept == {i \in 1 .. Len(text) : text[i] # "-"}
    IN  IF kept = {} THEN <<>>
        ELSE SubSeq(text, CHOOSE i \in kept : \A j \in kept : i <= j, Len(text))

\* The single comma is always taken for a thousands separator.
SingleCommaStripped(cleaned) == Remove(cleaned, <<",">>)

\* One comma and no dot: a decimal comma when two characters follow it, a
\* thousands separator otherwise.
SingleComma(cleaned) ==
    IF Len(cleaned) - RFind(cleaned, ",") = 2
    THEN ReplaceChar(cleaned, ",", ".")
    ELSE Remove(cleaned, <<",">>)

\* Dots and commas: the kind that occurs last is the decimal separator.
MixedSeparators(cleaned) ==
    IF RFind(cleaned, ".") > RFind(cleaned, ",")
    THEN Remove(cleaned, <<",">>)
    ELSE ReplaceChar(Remove(cleaned, <<".">>), ",", ".")

\* Several of one separator and none of the other: thousands separators.
RepeatedSeparator(cleaned) ==
    LET commas == IF Count(cleaned, ",") > 1 THEN Remove(cleaned, <<",">>) ELSE cleaned
    IN  IF Count(cleaned, ".") > 1 THEN Remove(commas, <<".">>) ELSE commas

\* -result if is_negative else result
Signed(result, is_negative) ==
    IF result = None THEN None
    ELSE IF is_negative THEN Some(Negated(result[1])) ELSE result

parse_numeric_value(value_str) ==
    LET kept == SelectSeq(value_str, LAMBDA c : c \in Range(DigitChars) \cup {".", ",", "-"})
        is_negative == kept # <<>> /\ kept[1] = "-"
        cleaned == LStripMinus(kept)
        comma_count == Count(cleaned, ",")
        dot_count == Count(cleaned, ".")
    IN  IF value_str = <<>> \/ kept = <<>> THEN None
        ELSE IF comma_count = 0 /\ dot_count <= 1 THEN Signed(Float(cleaned), is_negative)
        ELSE IF comma_count = 1 /\ dot_count = 0
        THEN Signed(Float(SingleComma(cleaned)), is_negative)
        ELSE IF dot_count >= 1 /\ comma_count >= 1
        THEN Signed(Float(MixedSeparators(cleaned)), is_negative)
        ELSE Signed(Float(RepeatedSeparator(cleaned)), is_negative)

RECURSIVE Gcd(_, _)
Gcd(a, b) == IF b = 0 THEN a ELSE Gcd(b, a % b)

\* round() of the exact value of x * (a / b) * (c / d), for b > 0 and d > 0,
\* computed on reduced fractions and by long division to keep the
\* intermediate products small.
RoundProduct(x, a, b, c, d) ==
    LET a1 == a \div Gcd(a, b)
        b1 == b \div Gcd(a, b)
        k == (a1 * c) \div Gcd(a1 * c, b1 * d)
        den == (b1 * d) \div Gcd(a1 * c, b1 * d)
        size == IF x < 0 THEN -x ELSE x
        rest == (size % den) * k
        rounded == RoundHalfEven((size \div den) * k + (rest \div den), rest % den, den)
    IN  IF x < 0 THEN -rounded ELSE rounded

\* normalize_price: the price in cents of the target currency, if the text
\* holds a number, and the currency detected.  round(value, 2) is taken on the
\* exact value; on binary floats a value that ends in exactly half a cent may
\* round to either neighbour.
normalize_price(price_str, target_currency) ==
    IF price_str = <<>> THEN [price |-> None, currency |-> "USD"]
    ELSE LET found == detect_currency(price_str)
             value == parse_numeric_value(found.cleaned)
         IN  IF value = None THEN [price |-> None, currency |-> found.code]
             ELSE IF found.code # target_currency
             THEN [price |-> Some(RoundProduct(value[1].mant,
                                               RateOf(found.code), RateOf(target_currency),
                                               100, Pow10(value[1].exp))),
                   currency |-> found.code]
             ELSE [price |-> Some(RoundDiv(value[1].mant * 100, Pow10(value[1].exp))),
                   currency |-> found.code]

\* The discount without the guards on the sign of the prices.
calculate_discount_percentage_unguarded(original_price, current_price) ==
    IF original_price <= 0 \/ current_price >= original_price THEN 0
    ELSE RoundDiv((original_price - current_price) * 1000, original_price)

\* calculate_discount_percentage, prices in cents, the result in tenths of a
\* percent.
calculate_discount_percentage(original_price, current_price) ==
    IF original_price <= 0 \/ current_price < 0 THEN 0
    ELSE IF current_price >= original_price THEN 0
    ELSE RoundDiv((original_price - current_price) * 1000, original_price)

\* ------------------------------------------------------------------ requests
\* Queries, as word sequences.
Queries == {<<"tv">>, <<"Laptop", "stand">>}

\* The `sources` lists a request carries (order and repeats as sent).
SourceLists ==
    {<<>>, <<"amazon">>, <<"ebay">>, <<"walmart">>, <<"amazon", "ebay">>,
     <<"ebay", "amazon">>, <<"amazon", "amazon">>, <<"walmart", "ebay", "amazon">>}

CompareParams ==
    [endpoint : {"compare"}, query : Queries, sources : SourceLists,
     min_price : {None}, max_price : {None}, limit : 1 .. MaxLimit]

SearchParams ==
    [endpoint : {"search"}, query : Queries, sources : SourceLists,
     min_price : {None, Some(2800)}, max_price : {None, Some(3200)},
     limit : 1 .. MaxLimit]

NoRequest ==
    [endpoint |-> "none", query |-> <<>>, sources |-> <<>>,
     min_price |-> None, max_price |-> None, limit |-> 1]

\* Compare requests that arrive together with an equal twin.
TwinParams ==
    {p \in CompareParams :
        p.query = <<"tv">> /\ p.limit = 1 /\ p.sources \in {<<>>, <<"ebay">>}}

\* The requests on the wire: one request of any kind, or two equal compare requests.
Arrivals ==
    {[r \in Req |-> IF r = 1 THEN p ELSE NoRequest] : p \in CompareParams \cup SearchParams}
        \cup {[r \in Req |-> p] : p \in TwinParams}

NoTask == [st |-> "none", items |-> <<>>]

InFlight == [st |-> "inflight", items |-> <<>>]

NoResponse ==
    [status |-> "none", cached |-> FALSE, products |-> <<>>, best_value |-> None,
     best_price |-> None, best_quality |-> None,
     recommendation |-> [kind |-> "none", title |-> None]]

Terminal == {"Served-Cached", "Served-Fresh", "Failed-NotFound", "Failed-Error"}

VARIABLES
    arrivals,        \* the request each slot receives (NoRequest: none)
    pc,              \* where each request's handler stands
    task,            \* the source tasks of search_all, per request and source
    task_raised,     \* whether one of the request's source tasks ended raising
    products,        \* the handler's `products` list
    use_mock,        \* the handler's use_mock flag
    idx,             \* position of the enrichment loop in products[:limit]
    reviews_map,     \* product id -> reviews
    sentiments_map,  \* product id -> sentiment
    scored,          \* scored_products
    response,        \* what the caller got
    redisClient,     \* CacheService._redis: "None" or "client"
    redisStore,      \* the entries of the Redis server, by key
    freshKeys,       \* keys whose result was served fresh while the server was up
    afterFresh,      \* the request began, server up, after its key was served fresh
    applied          \* the function applied outside any request, with its result

vars ==
    <<arrivals, pc, task, task_raised, products, use_mock, idx, reviews_map, sentiments_map,
      scored, response, redisClient, redisStore, freshKeys, afterFresh, applied>>

request_vars ==
    <<arrivals, pc, task, task_raised, products, use_mock, idx, reviews_map, sentiments_map,
      scored, response, redisClient, redisStore, freshKeys, afterFresh>>

local_vars ==
    <<task_raised, products, use_mock, idx, reviews_map, sentiments_map, scored>>

cache_vars == <<redisClient, redisStore>>

\* No function applied.
NoCall == [op |-> "none", params |-> <<>>, result |-> None]

\* CacheService.__init__ (_redis = None) and idle handlers.
Init ==
    /\ arrivals \in Arrivals
    /\ pc = [r \in Req |-> IF arrivals[r].endpoint = "none" THEN "none" ELSE "waiting"]
    /\ task = [r \in Req |-> [s \in Sources |-> NoTask]]
    /\ task_raised = [r \in Req |-> FALSE]
    /\ products = [r \in Req |-> <<>>]
    /\ use_mock = [r \in Req |-> FALSE]
    /\ idx = [r \in Req |-> 0]
    /\ reviews_map = [r \in Req |-> <<>>]
    /\ sentiments_map = [r \in Req |-> <<>>]
    /\ scored = [r \in Req |-> <<>>]
    /\ response = [r \in Req |-> NoResponse]
    /\ redisClient = "None"
    /\ redisStore = <<>>
    /\ freshKeys = {}
    /\ afterFresh = [r \in Req |-> FALSE]
    /\ applied = NoCall

NotFoundResponse == [NoResponse EXCEPT !.status = "Failed-NotFound"]

ErrorResponse == [NoResponse EXCEPT !.status = "Failed-Error"]

\* The identifier compare_products looks up and stores under.
CompareKey(r) ==
    CompareCacheKey(arrivals[r].query, arrivals[r].sources, arrivals[r].limit)

SearchKey(r) ==
    generate_search_cache_key(arrivals[r].query, arrivals[r].sources,
        arrivals[r].min_price, arrivals[r].max_price, arrivals[r].limit)

\* search_all up to the await of gather: one task per requested source.
LaunchTasks(sources) ==
    [s \in Sources |-> IF s \in Range(TaskOrder(sources)) THEN InFlight ELSE NoTask]

\* The response rebuilt from a cached compare result.
CachedCompareResponse(value) ==
    [status |-> "Served-Cached", cached |-> TRUE, products |-> value.products,
     best_value |-> value.best_value, best_price |-> value.best_price,
     best_quality |-> value.best_quality, recommendation |-> value.recommendation]

\* compare_products, lines 171-194: the cache lookup; a hit is returned at once,
\* a miss starts the fan-out search.
CompareStart(r) ==
    /\ pc[r] = "waiting"
    /\ arrivals[r].endpoint = "compare"
    /\ \E cond \in StoreConds :
       LET hit == CacheGet(redisClient, cond, redisStore, "compare", CompareKey(r))
       IN  /\ redisClient' = ClientAfter(redisClient, cond)
           /\ afterFresh' = [afterFresh EXCEPT
                                ![r] = /\ cond = "up"
                                       /\ MakeKey("compare", CompareKey(r)) \in freshKeys]
           /\ IF IsConnectedRaises(redisClient, cond)
              THEN /\ pc' = [pc EXCEPT ![r] = "Failed-Error"]
                   /\ response' = [response EXCEPT ![r] = ErrorResponse]
                   /\ UNCHANGED task
              ELSE IF hit # None
              THEN /\ pc' = [pc EXCEPT ![r] = "Served-Cached"]
                   /\ response' = [response EXCEPT ![r] = CachedCompareResponse(hit[1])]
                   /\ UNCHANGED task
              ELSE /\ pc' = [pc EXCEPT ![r] = "gather"]
                   /\ task' = [task EXCEPT ![r] = LaunchTasks(arrivals[r].sources)]
                   /\ UNCHANGED response
    /\ UNCHANGED <<applied, arrivals, local_vars, redisStore, freshKeys>>

\* One source task settles: search_amazon / search_ebay / search_walmart returns
\* or raises, whatever its siblings do.
TaskSettle(r, s) ==
    /\ pc[r] = "gather"
    /\ task[r][s].st = "inflight"
    /\ \E resp \in ProviderOutcomes :
          task' = [task EXCEPT ![r][s] = SearchSource(s, resp, arrivals[r].limit)]
    /\ UNCHANGED <<applied, arrivals, pc, local_vars, response, cache_vars,
                   freshKeys, afterFresh>>

\* Whether a result handed back by gather is an exception.
AnyRaised(taskOf) == \E s \in Sources : taskOf[s].st = "exc"

\* Variant: no fallback to mock data. C9 must be sensitive to it.
ApplyFallbackNone(live, mock) == [products |-> live, use_mock |-> FALSE]

\* compare_products, lines 199-204: an empty product list is replaced by the mock set.
ApplyFallback(live, mock) ==
    IF live = <<>> THEN [products |-> mock, use_mock |-> TRUE]
    ELSE [products |-> live, use_mock |-> FALSE]

\* compare_products, lines 192-216: the gather has returned; search_all merges, an
\* exception of search_all leaves products empty, an empty list falls back to mock
\* data, and a list still empty ends the request with 404.
CompareJoin(r) ==
    /\ pc[r] = "gather"
    /\ arrivals[r].endpoint = "compare"
    /\ AllSettled(arrivals[r].sources, task[r])
    /\ \E a \in {arrivals[r]} :
       \E res \in {SearchAll(a.sources, task[r])} :
       \E live \in {IF res.raised THEN <<>> ELSE res.products} :
       \E jit \in [1 .. (IF live = <<>> THEN MockCount(a.query, a.sources, a.limit)
                                ELSE 0) -> Jitter] :
       \E fb \in {ApplyFallback(live, GetMockProducts(a.query, a.sources, a.limit, jit))} :
                  /\ products' = [products EXCEPT ![r] = fb.products]
                  /\ use_mock' = [use_mock EXCEPT ![r] = fb.use_mock]
                  /\ IF fb.products = <<>>
                     THEN /\ pc' = [pc EXCEPT ![r] = "Failed-NotFound"]
                          /\ response' = [response EXCEPT ![r] = NotFoundResponse]
                          /\ UNCHANGED idx
                     ELSE /\ pc' = [pc EXCEPT ![r] = "reviews"]
                          /\ idx' = [idx EXCEPT ![r] = 1]
                          /\ UNCHANGED response
    /\ task_raised' = [task_raised EXCEPT ![r] = AnyRaised(task[r])]
    /\ task' = [task EXCEPT ![r] = [s \in Sources |-> NoTask]]
    /\ UNCHANGED <<applied, arrivals, reviews_map, sentiments_map, scored, cache_vars,
                   freshKeys, afterFresh>>

\* The whole list of products, not cut to `limit`.
FrameUncut(r) == products[r]

\* products[:limit], the frame the loop enriches and score_products scores.
Frame(r) == Take(products[r], arrivals[r].limit)

\* Variant: the review fetch without its try/except. C10 must be sensitive to it.
EnrichReviewsUnguarded(product, mock, resp, shuffle) ==
    IF mock \/ product.source # "amazon"
    THEN [raised |-> FALSE, reviews |-> GetMockReviews(10, shuffle)]
    ELSE FetchAmazonReviews(resp, 10)

\* The review branch of the loop body (lines 218-229) for one product: mock reviews
\* in mock mode and for a source other than Amazon; for Amazon the fetched reviews,
\* or mock reviews when the fetch raises.
EnrichReviews(product, mock, resp, shuffle) ==
    IF mock \/ product.source # "amazon"
    THEN [raised |-> FALSE, reviews |-> GetMockReviews(10, shuffle)]
    ELSE LET f == FetchAmazonReviews(resp, 10)
         IN  [raised |-> FALSE,
              reviews |-> IF f.raised THEN GetMockReviews(10, shuffle) ELSE f.reviews]

\* gemini.analyze_sentiment as the router sees it: every provider failure is
\* handled inside the service, so the call returns and never raises.
SentimentCall(reviews, outcome) ==
    [raised |-> FALSE, sentiment |-> AnalyzeSentiment(reviews, outcome)]

\* The sentiment branch of the loop body (lines 232-240): the call's result, or a
\* mock sentiment when the call raises.
EnrichSentiment(call, pick) ==
    [raised |-> FALSE,
     sentiment |-> IF call.raised THEN GetMockSentiment(pick) ELSE call.sentiment]

\* The loop body up to the sentiment call, for products[:limit][idx].
FetchReviews(r) ==
    /\ pc[r] = "reviews"
    /\ \E product \in {Frame(r)[idx[r]]} :
       \E resp \in (IF ~use_mock[r] /\ product.source = "amazon"
                    THEN ReviewOutcomes ELSE {[kind |-> "ok", n |-> 0]}),
          shuffle \in Shuffles,
          pick \in (IF use_mock[r] THEN 1 .. Len(MOCK_SENTIMENTS) ELSE {1}) :
       \E e \in {EnrichReviews(product, use_mock[r], resp, shuffle)} :
                  IF e.raised
                  THEN /\ pc' = [pc EXCEPT ![r] = "Failed-Error"]
                       /\ response' = [response EXCEPT ![r] = ErrorResponse]
                       /\ UNCHANGED <<reviews_map, sentiments_map>>
                  ELSE /\ pc' = [pc EXCEPT ![r] = "sentiment"]
                       /\ reviews_map' = [reviews_map EXCEPT
                             ![r] = (product.id :> e.reviews) @@ reviews_map[r]]
                       /\ sentiments_map' = [sentiments_map EXCEPT
                             ![r] = IF use_mock[r]
                                    THEN (product.id :> GetMockSentiment(pick)) @@ sentiments_map[r]
                                    ELSE sentiments_map[r]]
                       /\ UNCHANGED response
    /\ UNCHANGED <<applied, arrivals, task, task_raised, products, use_mock, idx, scored,
                   cache_vars, freshKeys, afterFresh>>

\* The rest of the loop body: the sentiment call for a product without a sentiment
\* yet; after the last product, score_products over products[:limit].
AnalyzeStep(r) ==
    /\ pc[r] = "sentiment"
    /\ \E frame \in {Frame(r)} :
       \E product \in {frame[idx[r]]} :
       \E outcome \in (IF product.id \notin DOMAIN sentiments_map[r]
                       THEN GeminiOutcomes ELSE {"ok_positive"}) :
       \E call \in {SentimentCall(reviews_map[r][product.id], outcome)} :
       \E pick \in (IF call.raised THEN 1 .. Len(MOCK_SENTIMENTS) ELSE {1}) :
       \E e \in {EnrichSentiment(call, pick)} :
       \E smap \in {IF product.id \in DOMAIN sentiments_map[r]
                     THEN sentiments_map[r]
                     ELSE (product.id :> e.sentiment) @@ sentiments_map[r]} :
                  IF product.id \notin DOMAIN sentiments_map[r] /\ e.raised
                  THEN /\ pc' = [pc EXCEPT ![r] = "Failed-Error"]
                       /\ response' = [response EXCEPT ![r] = ErrorResponse]
                       /\ UNCHANGED <<sentiments_map, idx, scored>>
                  ELSE /\ sentiments_map' = [sentiments_map EXCEPT ![r] = smap]
                       /\ UNCHANGED response
                       /\ IF idx[r] < Len(frame)
                          THEN /\ idx' = [idx EXCEPT ![r] = idx[r] + 1]
                               /\ pc' = [pc EXCEPT ![r] = "reviews"]
                               /\ UNCHANGED scored
                          ELSE /\ pc' = [pc EXCEPT ![r] = "recommend"]
                               /\ scored' = [scored EXCEPT
                                    ![r] = score_products(frame, reviews_map[r], smap, None)]
                               /\ UNCHANGED idx
    /\ UNCHANGED <<applied, arrivals, task, task_raised, products, use_mock, reviews_map,
                   cache_vars, freshKeys, afterFresh>>

\* gemini.generate_recommendation as the router sees it: the provider's failure is
\* handled inside the service, so the call returns and never raises.
RecommendCall(data, outcome) ==
    [raised |-> FALSE, text |-> GenerateRecommendation(data, outcome)]

\* compare_products, lines 252-270: the recommendation over scored_products[:5],
\* or the router's own sentence about best_value when the call raises.
Recommendation(scoredProducts, bests, outcome) ==
    LET call == RecommendCall(Take(scoredProducts, 5), outcome)
    IN  IF ~call.raised THEN call.text
        ELSE IF bests.best_value # None
        THEN [kind |-> "router_template", title |-> Some(bests.best_value[1].title)]
        ELSE [kind |-> "unable", title |-> None]

\* compare_products, lines 250-289: bests, recommendation, the cache write and the
\* fresh response; the handler's locals end with it.
Recommend(r) ==
    /\ pc[r] = "recommend"
    /\ \E bests \in {get_best_products(scored[r])} :
       \E outcome \in RecommendOutcomes :
       \E rec \in {Recommendation(scored[r], bests, outcome)} :
       \E cond \in StoreConds :
          LET data == [products |-> scored[r], best_value |-> bests.best_value,
                       best_price |-> bests.best_price,
                       best_quality |-> bests.best_quality, recommendation |-> rec]
          IN  IF IsConnectedRaises(redisClient, cond)
              THEN /\ pc' = [pc EXCEPT ![r] = "Failed-Error"]
                   /\ response' = [response EXCEPT ![r] = ErrorResponse]
                   /\ UNCHANGED <<cache_vars, freshKeys>>
              ELSE /\ pc' = [pc EXCEPT ![r] = "Served-Fresh"]
                   /\ redisStore' = CacheSet(redisClient, cond, redisStore,
                                             "compare", CompareKey(r), data)
                   /\ redisClient' = ClientAfter(redisClient, cond)
                   /\ freshKeys' = IF cond = "up"
                                   THEN freshKeys \cup {MakeKey("compare", CompareKey(r))}
                                   ELSE freshKeys
                   /\ response' = [response EXCEPT
                         ![r] = [status |-> "Served-Fresh", cached |-> FALSE,
                                 products |-> scored[r],
                                 best_value |-> bests.best_value,
                                 best_price |-> bests.best_price,
                                 best_quality |-> bests.best_quality,
                                 recommendation |-> rec]]
    /\ task_raised' = [task_raised EXCEPT ![r] = FALSE]
    /\ products' = [products EXCEPT ![r] = <<>>]
    /\ idx' = [idx EXCEPT ![r] = 0]
    /\ reviews_map' = [reviews_map EXCEPT ![r] = <<>>]
    /\ sentiments_map' = [sentiments_map EXCEPT ![r] = <<>>]
    /\ scored' = [scored EXCEPT ![r] = <<>>]
    /\ UNCHANGED <<applied, arrivals, task, use_mock, afterFresh>>

\* relevance_score of search_products: rating * (1 + review_count / 1000), scaled.
RelevanceKey(p) ==
    (IF p.rating = None THEN 0 ELSE p.rating[1])
        * (1000 + (IF p.review_count = None THEN 0 ELSE p.review_count[1]))

\* search_products, lines 80-92: the price filters, then the relevance sort.
FilterAndSort(list, min_price, max_price) ==
    LET Kept(p) == /\ (min_price = None \/ p.price >= min_price[1])
                   /\ (max_price = None \/ p.price <= max_price[1])
    IN  Value(SelectSeq(list, Kept), LAMBDA kept :
            SortDescBy(kept, [i \in 1 .. Len(kept) |-> RelevanceKey(kept[i])]))

\* search_products, lines 56-73: the cache lookup; a hit is returned at once, a
\* miss starts the fan-out search.
SearchStart(r) ==
    /\ pc[r] = "waiting"
    /\ arrivals[r].endpoint = "search"
    /\ \E cond \in StoreConds :
       LET hit == CacheGet(redisClient, cond, redisStore, "search", SearchKey(r))
       IN  /\ redisClient' = ClientAfter(redisClient, cond)
           /\ IF IsConnectedRaises(redisClient, cond)
              THEN /\ pc' = [pc EXCEPT ![r] = "Failed-Error"]
                   /\ response' = [response EXCEPT ![r] = ErrorResponse]
                   /\ UNCHANGED task
              ELSE IF hit # None
              THEN /\ pc' = [pc EXCEPT ![r] = "Served-Cached"]
                   /\ response' = [response EXCEPT
                         ![r] = [NoResponse EXCEPT !.status = "Served-Cached",
                                    !.cached = TRUE, !.products = hit[1].products]]
                   /\ UNCHANGED task
              ELSE /\ pc' = [pc EXCEPT ![r] = "gather"]
                   /\ task' = [task EXCEPT ![r] = LaunchTasks(arrivals[r].sources)]
                   /\ UNCHANGED response
    /\ UNCHANGED <<applied, arrivals, local_vars, redisStore, freshKeys, afterFresh>>

\* search_products, lines 71-105: the gather has returned; an exception of
\* search_all becomes HTTP 503, else the list is filtered, sorted, cached, returned.
SearchJoin(r) ==
    /\ pc[r] = "gather"
    /\ arrivals[r].endpoint = "search"
    /\ AllSettled(arrivals[r].sources, task[r])
    /\ \E a \in {arrivals[r]} :
       \E res \in {SearchAll(a.sources, task[r])} :
       \E list \in {FilterAndSort(res.products, a.min_price, a.max_price)} :
       \E cond \in StoreConds :
           IF res.raised \/ IsConnectedRaises(redisClient, cond)
           THEN /\ pc' = [pc EXCEPT ![r] = "Failed-Error"]
                /\ response' = [response EXCEPT ![r] = ErrorResponse]
                /\ UNCHANGED cache_vars
           ELSE /\ pc' = [pc EXCEPT ![r] = "Served-Fresh"]
                /\ redisStore' = CacheSet(redisClient, cond, redisStore, "search",
                                    SearchKey(r),
                                    [total_results |-> Len(list), products |-> list])
                /\ redisClient' = ClientAfter(redisClient, cond)
                /\ response' = [response EXCEPT
                      ![r] = [NoResponse EXCEPT !.status = "Served-Fresh",
                                 !.products = list]]
    /\ task_raised' = [task_raised EXCEPT ![r] = AnyRaised(task[r])]
    /\ task' = [task EXCEPT ![r] = [s \in Sources |-> NoTask]]
    /\ UNCHANGED <<applied, arrivals, products, use_mock, idx, reviews_map, sentiments_map,
                   scored, freshKeys, afterFresh>>

\* Every step of one request's handler.
Handler(r) ==
    \/ CompareStart(r)
    \/ \E s \in Sources : TaskSettle(r, s)
    \/ CompareJoin(r)
    \/ FetchReviews(r)
    \/ AnalyzeStep(r)
    \/ Recommend(r)
    \/ SearchStart(r)
    \/ SearchJoin(r)

Next ==
    \/ \E r \in Req : CompareStart(r)
    \/ \E r \in Req, s \in Sources : TaskSettle(r, s)
    \/ \E r \in Req : CompareJoin(r)
    \/ \E r \in Req : FetchReviews(r)
    \/ \E r \in Req : AnalyzeStep(r)
    \/ \E r \in Req : Recommend(r)
    \/ \E r \in Req : SearchStart(r)
    \/ \E r \in Req : SearchJoin(r)

Spec == Init /\ [][Next]_vars

\* The event loop runs every handler that can take a step, and every provider
\* call settles (each has a network timeout).
FairSpec == Spec /\ \A r \in Req : WF_vars(Handler(r))

\* ----------------------------------------------- functions applied directly
\* The services' functions are plain functions of their arguments: each is also
\* applied on its own, on arguments drawn from bounded sets, with no request in
\* progress. `applied` holds the call: its arguments and, once made, its result.
Pending(op, params) == [op |-> op, params |-> params, result |-> None]

Returned(call, value) == [call EXCEPT !.result = Some(value)]

\* Queries of key computations; one holds the separator of the key text.
KeyQueries == Queries \cup {<<"tv", ":", "amazon">>}

\* The parameters of a key computation, by endpoint.
KeyParams ==
    [endpoint : {"compare"}, query : KeyQueries, sources : SourceLists,
     min_price : {None}, max_price : {None}, limit : 1 .. MaxLimit]
    \cup [endpoint : {"search"}, query : KeyQueries, sources : SourceLists,
          min_price : {None, Some(2800)}, max_price : {None, Some(3200)},
          limit : 1 .. MaxLimit]

\* The cache key an endpoint derives from its parameters.
CacheKeyOf(p) ==
    IF p.endpoint = "compare" THEN CompareCacheKey(p.query, p.sources, p.limit)
    ELSE generate_search_cache_key(p.query, p.sources, p.min_price, p.max_price, p.limit)

\* Ratings: absent, or 0.0 to 5.0 by tenths.
RatingInputs == {None} \cup {Some(t) : t \in 0 .. 50}

\* Review counts: absent, or a count on either side of each volume threshold.
CountInputs == {None} \cup {Some(c) : c \in {0, 9, 10, 99, 100, 499, 500, 999, 1000, 2500}}

\* Sentiment results: the score in hundredths of [-1, 1], pros and cons by number.
SentimentInputs ==
    {Sentiment(IF sc > 0 THEN "positive" ELSE IF sc < 0 THEN "negative" ELSE "neutral",
               sc, pros_cons[1], pros_cons[2], "input") :
        sc \in {-100, -50, 0, 1, 50, 100},
        pros_cons \in {<<0, 0>>, <<3, 1>>, <<0, 4>>, <<3, 0>>}}

\* quality_indicators: None, an empty dict, dicts with values in hundredths of
\* [0, 1], one of them with a key the function does not read.
QualityInputs ==
    {None, Some([k \in {} |-> 0]), Some([k \in {"durability"} |-> 0]),
     Some([k \in QualityKeys |-> 100]),
     Some([k \in {"performance", "warranty"} |-> IF k = "performance" THEN 50 ELSE 100])}

ReviewScoreInputs ==
    [rating : RatingInputs, review_count : CountInputs,
     sentiment : {None} \cup {Some(x) : x \in {y \in SentimentInputs : y.pros = 3 /\ y.cons = 1}}]

QualityScoreInputs ==
    [sentiment : {None} \cup {Some(x) : x \in SentimentInputs},
     quality_indicators : QualityInputs]

\* Scores in hundredths of [0, 10].
ScoreGrid == {0, 1, 250, 333, 500, 750, 999, 1000}

ValueScoreInputs == [price_score : ScoreGrid, review_score : ScoreGrid, quality_score : ScoreGrid]

\* The largest list of products given to score_products.
MaxFrame == 2

\* The longest price text of each of the two enumerated kinds.
MaxText == 3
MaxDigits == 5

\* Prices in cents.
PriceInputs == {799, 2999, 34999}

\* The first product of a list: every mix of absent and extreme attributes.
LeadInputs ==
    [price : PriceInputs, rating : {None, Some(0), Some(50)},
     review_count : {None, Some(0), Some(2500)},
     sentiment : {None, Some(Sentiment("negative", -100, 0, 4, "input")),
                  Some(Sentiment("positive", 100, 3, 0, "input"))},
     quality_indicators : {None, Some([k \in {"durability"} |-> 0]),
                           Some([k \in QualityKeys |-> 100])}]

\* The products after the first one.
CompanionInputs ==
    [price : PriceInputs, rating : {Some(45)}, review_count : {Some(450)},
     sentiment : {Some(Sentiment("positive", 50, 3, 1, "input"))},
     quality_indicators : {None}]
    \cup [price : PriceInputs, rating : {None}, review_count : {None},
          sentiment : {None}, quality_indicators : {None}]

FrameInputs ==
    {[products |-> <<>>]}
        \cup UNION {{[products |-> <<lead>> \o rest] :
                        lead \in LeadInputs, rest \in [1 .. (n - 1) -> CompanionInputs]} :
                   n \in 1 .. MaxFrame}

\* The arguments of score_products for a list of inputs: the Product list, and
\* the maps by product id (the position) of the sentiments and quality
\* indicators that are present.
FrameProducts(f) ==
    [i \in 1 .. Len(f) |->
        [id |-> i, title |-> ToString(i), price |-> f[i].price, source |-> "amazon",
         rating |-> f[i].rating, review_count |-> f[i].review_count]]

FrameSentiments(f) ==
    [i \in {j \in 1 .. Len(f) : f[j].sentiment # None} |-> f[i].sentiment[1]]

FrameQuality(f) ==
    IF \A j \in 1 .. Len(f) : f[j].quality_indicators = None THEN None
    ELSE Some([i \in {j \in 1 .. Len(f) : f[j].quality_indicators # None} |->
                  f[i].quality_indicators[1]])

\* Scored products given to get_best_products: lists, in any order, of up to
\* MaxFrame + 1 products whose three scores are 0.0 or 5.0, so that scores tie;
\* a product's id is its position.
BestInputs ==
    UNION {{[products |-> [i \in 1 .. n |->
                              [id |-> i, value_score |-> sc[i][1],
                               price_score |-> sc[i][2], quality_score |-> sc[i][3]]]] :
                sc \in [1 .. n -> {0, 500} \X {0, 500} \X {0, 500}]} :
           n \in 0 .. (MaxFrame + 1)}

\* Price texts: every text of up to MaxText characters of a price with a
\* currency, every text of up to MaxDigits characters of a number with
\* separators and signs, and a list of longer texts.
PriceTexts ==
    UNION {[1 .. k -> {"0", "2", "5", ".", ",", "-", " ", "$", "C"}] : k \in 0 .. MaxText}
        \cup UNION {[1 .. k -> {"5", ".", ",", "-"}] : k \in 0 .. MaxDigits}
        \cup
        {<<"1", ",", "2", "9", "9", ".", "9", "9">>,
         <<"1", ".", "2", "3", "4", ",", "5", "6">>,
         <<"9", "9", ",", "5", "0">>,
         <<"1", ",", "2", "3", "4">>,
         <<"$", "2", "9", ".", "9", "9">>,
         <<"$", "1", ",", "2", "9", "9", ".", "9", "9">>,
         <<"€", "9", "9", ",", "5", "0">>,
         <<"F", "r", "e", "e">>,
         <<"f", "r", "e", "e">>,
         <<"C", "$", "9", "9", ".", "9", "9">>,
         <<"A", "$", "5">>,
         <<"R", "$", " ", "1", "2", ",", "5", "0">>,
         <<"£", " ", "3">>,
         <<"¥", "1", ",", "0", "0", "0">>,
         <<"U", "S", "D", " ", "1", "2">>,
         <<"e", "u", "r", " ", "1", "2", ",", "5">>,
         <<"1", "2", " ", "U", "S", "D">>,
         <<"C", "A", "D", "5">>,
         <<"f", "r", "o", "m", " ", "$", "5", " ", "e", "a", "c", "h">>,
         <<"P", "r", "i", "c", "e", ":", " ", "5", " ", "p", "e", "r", " ", "u", "n", "i", "t">>,
         <<"n", "o", "w", " ", "₹", " ", "2", "0", "/", "e", "a">>,
         <<"S", "t", "a", "r", "t", "i", "n", "g", " ", "a", "t", " ", "1", ".", "2", "9", "9", ",", "0", "0">>,
         <<"1", ",", "2", "3", "4", ",", "5", "6", "7">>,
         <<"1", ".", "2", "3", "4", ".", "5", "6", "7">>,
         <<"1", ".", "2", ",", "3", ".", "4">>,
         <<"-", "5", ",", "2", "5">>,
         <<"$", "-", ",", ".">>,
         <<"N", "/", "A">>,
         <<"₩", "1", ".", "0", "0", "0">>,
         <<"₽", " ", "7">>}

\* Prices in cents given to calculate_discount_percentage.
AmountInputs == {-500, -1, 0, 1, 3, 333, 999, 1000, 2999, 34999}

\* The functions applied.
FnOps ==
    {"cache_key", "calculate_review_score", "calculate_quality_score",
     "calculate_value_score", "score_products", "get_best_products", "detect_currency",
     "parse_numeric_value", "normalize_price", "calculate_discount_percentage"}

\* The parameters a function is applied to.
FnInputs(op) ==
    CASE op = "cache_key" -> KeyParams
      [] op = "calculate_review_score" -> ReviewScoreInputs
      [] op = "calculate_quality_score" -> QualityScoreInputs
      [] op = "calculate_value_score" -> ValueScoreInputs
      [] op = "score_products" -> FrameInputs
      [] op = "get_best_products" -> BestInputs
      [] op = "detect_currency" -> {[price_str |-> t] : t \in PriceTexts}
      [] op = "parse_numeric_value" -> {[value_str |-> t] : t \in PriceTexts}
      [] op = "normalize_price" ->
            {[price_str |-> t, target_currency |-> c] : t \in PriceTexts, c \in {"USD", "EUR"}}
      [] op = "calculate_discount_percentage" ->
            {[original_price |-> o, current_price |-> c] :
                o \in AmountInputs, c \in AmountInputs}

FnInit ==
    /\ arrivals = [r \in Req |-> NoRequest]
    /\ pc = [r \in Req |-> "none"]
    /\ task = [r \in Req |-> [s \in Sources |-> NoTask]]
    /\ task_raised = [r \in Req |-> FALSE]
    /\ products = [r \in Req |-> <<>>]
    /\ use_mock = [r \in Req |-> FALSE]
    /\ idx = [r \in Req |-> 0]
    /\ reviews_map = [r \in Req |-> <<>>]
    /\ sentiments_map = [r \in Req |-> <<>>]
    /\ scored = [r \in Req |-> <<>>]
    /\ response = [r \in Req |-> NoResponse]
    /\ redisClient = "None"
    /\ redisStore = <<>>
    /\ freshKeys = {}
    /\ afterFresh = [r \in Req |-> FALSE]
    /\ \E op \in FnOps : \E p \in FnInputs(op) : applied = Pending(op, p)

\* The call `applied` holds is one of op and has not been made.
ToApply(op) == applied.op = op /\ applied.result = None

\* generate_search_cache_key, or the key computation of compare_products.
ApplyCacheKey ==
    /\ ToApply("cache_key")
    /\ applied' = Returned(applied, CacheKeyOf(applied.params))
    /\ UNCHANGED request_vars

ApplyReviewScore ==
    /\ ToApply("calculate_review_score")
    /\ \E p \in {applied.params} :
          applied' = Returned(applied,
                        calculate_review_score(p.rating, p.review_count, p.sentiment))
    /\ UNCHANGED request_vars

ApplyQualityScore ==
    /\ ToApply("calculate_quality_score")
    /\ \E p \in {applied.params} :
          applied' = Returned(applied,
                        calculate_quality_score(p.sentiment, p.quality_indicators))
    /\ UNCHANGED request_vars

ApplyValueScore ==
    /\ ToApply("calculate_value_score")
    /\ \E p \in {applied.params} :
          applied' = Returned(applied,
                        calculate_value_score(p.price_score, p.review_score,
                                              p.quality_score))
    /\ UNCHANGED request_vars

ApplyScoreProducts ==
    /\ ToApply("score_products")
    /\ \E f \in {applied.params.products} :
          applied' = Returned(applied,
                        score_products(FrameProducts(f), <<>>, FrameSentiments(f),
                                       FrameQuality(f)))
    /\ UNCHANGED request_vars

ApplyGetBestProducts ==
    /\ ToApply("get_best_products")
    /\ applied' = Returned(applied, get_best_products(applied.params.products))
    /\ UNCHANGED request_vars

ApplyDetectCurrency ==
    /\ ToApply("detect_currency")
    /\ applied' = Returned(applied, detect_currency(applied.params.price_str))
    /\ UNCHANGED request_vars

ApplyParseNumericValue ==
    /\ ToApply("parse_numeric_value")
    /\ applied' = Returned(applied, parse_numeric_value(applied.params.value_str))
    /\ UNCHANGED request_vars

ApplyNormalizePrice ==
    /\ ToApply("normalize_price")
    /\ applied' = Returned(applied, normalize_price(applied.params.price_str,
                                                    applied.params.target_currency))
    /\ UNCHANGED request_vars

ApplyDiscountPercentage ==
    /\ ToApply("calculate_discount_percentage")
    /\ applied' = Returned(applied,
                           calculate_discount_percentage(applied.params.original_price,
                                                         applied.params.current_price))
    /\ UNCHANGED request_vars

FnNext ==
    \/ ApplyCacheKey
    \/ ApplyReviewScore
    \/ ApplyQualityScore
    \/ ApplyValueScore
    \/ ApplyScoreProducts
    \/ ApplyGetBestProducts
    \/ ApplyDetectCurrency
    \/ ApplyParseNumericValue
    \/ ApplyNormalizePrice
    \/ ApplyDiscountPercentage

FnSpec == FnInit /\ [][FnNext]_vars

\* ===================================================================== claims
CompareReq == {r \in Req : arrivals[r].endpoint = "compare"}

SearchReq == {r \in Req : arrivals[r].endpoint = "search"}

\* The lists returned by the requested sources whose task succeeded, concatenated
\* in the order amazon, ebay, walmart.
SucceededConcat(sources, taskOf) ==
    Flatten([i \in 1 .. 3 |->
        LET s == <<"amazon", "ebay", "walmart">>[i]
        IN  IF s \in Range(sources) /\ taskOf[s].st = "list" THEN taskOf[s].items ELSE <<>>])

\* The step in which request r leaves the gather of search_all.
LeavesGather(r) == pc[r] = "gather" /\ pc'[r] # "gather"

\* The mock table of a query holds no item of a requested source.
NoSyntheticCandidate(query, sources) ==
    LET data == MOCK_PRODUCTS(MockKeyFor(query))
    IN  \A i \in 1 .. Len(data) : data[i].source \notin Range(sources)

\* ------------------------------------------------------------------------ C1
\* C1 (read-through cache): a compare request that begins, with the cache store
\* reachable, after a request with the same query, source set and limit was
\* Served-Fresh with the store reachable, is Served-Cached. The code violates it:
\* CacheService.is_connected answers False while _redis is None, and _redis is
\* assigned only by the redis property, which get and set read only past that guard.
C1_ReadThrough ==
    \A r \in Req : afterFresh[r] => pc[r] = "Served-Cached" /\ response[r].cached

\* ------------------------------------------------------------------------ C3
\* C3: every compare request eventually reaches one of Served-Cached, Served-Fresh,
\* Failed-NotFound, and having reached one it stays there (exactly one), whatever
\* the cache, the sources, the review provider and the text provider answer.
C3_EventuallyTerminal ==
    /\ \A r \in Req :
          (arrivals[r].endpoint = "compare")
              ~> (pc[r] \in {"Served-Cached", "Served-Fresh", "Failed-NotFound"})
    /\ [][\A r \in Req : pc[r] \in Terminal => pc'[r] = pc[r]]_vars

\* A compare request served fresh although its sources gave nothing and the
\* recommendation provider failed.
C3_Witness ==
    \E r \in CompareReq :
        /\ pc[r] = "Served-Fresh"
        /\ use_mock[r]
        /\ response[r].recommendation.kind = "template"

\* ------------------------------------------------------------------------ C4
\* C4: no search or compare request ends with an error outcome: every finished
\* request is Served-Cached, Served-Fresh or Failed-NotFound, under any combination
\* of provider failures.
C4_NoErrorOutcome ==
    \A r \in Req :
        /\ pc[r] # "Failed-Error"
        /\ response[r].status # "Failed-Error"
        /\ pc[r] \in Terminal => response[r].status = pc[r]
        /\ (r \in SearchReq /\ pc[r] \in Terminal) => pc[r] \in {"Served-Cached", "Served-Fresh"}

\* A search request answered although one of its source tasks raised.
C4_Witness ==
    \E r \in SearchReq : pc[r] = "Served-Fresh" /\ task_raised[r]

\* ------------------------------------------------------------------------ C5
\* C5 (per-source failure isolation): when search_all returns, it does not fail and
\* its merged list is the concatenation of the lists of the sources that succeeded:
\* compare continues with exactly that list when it is not empty (and falls back
\* only when it is empty), search answers with that list filtered and sorted.
C5_FailureIsolation ==
    [][\A r \in Req :
          LeavesGather(r) =>
              LET a == arrivals[r]
                  merged == SucceededConcat(a.sources, task[r])
              IN  /\ pc'[r] # "Failed-Error"
                  /\ r \in CompareReq =>
                        IF merged # <<>>
                        THEN products'[r] = merged /\ ~use_mock'[r]
                        ELSE use_mock'[r]
                  /\ r \in SearchReq =>
                        response'[r].products = FilterAndSort(merged, a.min_price, a.max_price)
      ]_vars

\* A compare request past the merge: one of its source tasks raised, and the
\* candidates of a sibling source are kept.
C5_Witness ==
    \E r \in CompareReq :
        /\ pc[r] = "reviews"
        /\ task_raised[r]
        /\ ~use_mock[r]
        /\ products[r] # <<>>

\* ------------------------------------------------------------------------ C6
\* C6 (fan-out/fan-in barrier): a request leaves the gather, towards merging and
\* every later step, only in a state where every requested source task has
\* settled; no later step runs beside a task still in flight.
C6_Barrier ==
    [][\A r \in Req :
          /\ LeavesGather(r) =>
                \A s \in Range(arrivals[r].sources) : task[r][s].st \in {"list", "exc"}
          /\ pc'[r] \notin {"none", "waiting", "gather"} =>
                \A s \in Sources : task'[r][s].st # "inflight"
      ]_vars

\* A request past the barrier whose merged list holds candidates of two sources.
C6_Witness ==
    \E r \in CompareReq :
        /\ pc[r] = "reviews"
        /\ ~use_mock[r]
        /\ \E i, j \in 1 .. Len(products[r]) : products[r][i].source # products[r][j].source

\* ------------------------------------------------------------------------ C7
\* C7 (fallback trigger): when search_all raises or its merged list is empty, the
\* compare request takes the synthetic set: at most `limit` products, each of a
\* requested source; the request is not aborted with an error, and with at least
\* one requested source the set is not empty and the request goes on to enrichment.
C7_FallbackTrigger ==
    [][\A r \in CompareReq :
          LET a == arrivals[r]
              res == SearchAll(a.sources, task[r])
          IN  (LeavesGather(r) /\ (res.raised \/ res.products = <<>>)) =>
                  /\ use_mock'[r]
                  /\ Len(products'[r]) <= a.limit
                  /\ \A i \in 1 .. Len(products'[r]) :
                        products'[r][i].source \in Range(a.sources)
                  /\ pc'[r] # "Failed-Error"
                  /\ a.sources # <<>> => (products'[r] # <<>> /\ pc'[r] = "reviews")
      ]_vars

\* A compare request that continues on synthetic products after a source task raised.
C7_Witness ==
    \E r \in CompareReq :
        /\ pc[r] = "reviews"
        /\ use_mock[r]
        /\ task_raised[r]
        /\ products[r] # <<>>

\* ------------------------------------------------------------------------ C8
\* C8 (deterministic fallback): two compare runs with the same query, sources and
\* limit that both fall back to synthetic data return the same candidates
\* (identifiers, prices, reviews, sentiments, scores, order). The code violates it:
\* get_mock_products adds random.uniform(-5, 5) to each price, get_mock_reviews is
\* random.sample and get_mock_sentiment is random.choice.
C8_DeterministicFallback ==
    \A r1, r2 \in CompareReq :
        (/\ arrivals[r1] = arrivals[r2]
         /\ pc[r1] = "Served-Fresh" /\ pc[r2] = "Served-Fresh"
         /\ use_mock[r1] /\ use_mock[r2])
            => response[r1].products = response[r2].products

\* ------------------------------------------------------------------------ C9
\* C9: a compare request ends Failed-NotFound only in a step where the live search
\* gave no candidate and the synthetic fallback has none either; an empty live
\* result with a synthetic candidate available goes on to enrichment.
C9_NotFoundOnlyBothEmpty ==
    [][\A r \in CompareReq :
          LET a == arrivals[r]
              live == SucceededConcat(a.sources, task[r])
          IN  /\ (pc[r] # "Failed-NotFound" /\ pc'[r] = "Failed-NotFound") =>
                    (pc[r] = "gather" /\ live = <<>> /\ NoSyntheticCandidate(a.query, a.sources))
              /\ (LeavesGather(r) /\ live = <<>> /\ ~NoSyntheticCandidate(a.query, a.sources)) =>
                    (pc'[r] = "reviews" /\ products'[r] # <<>>)
      ]_vars

\* A compare request whose sources all answered, none with a candidate, and
\* which goes on with synthetic candidates.
C9_Witness ==
    \E r \in CompareReq :
        /\ pc[r] = "reviews"
        /\ use_mock[r]
        /\ ~task_raised[r]
        /\ arrivals[r].sources # <<>>

\* ------------------------------------------------------------------------ C10
\* Candidate i of request r's frame has a review list and a sentiment result.
Enriched(r, i) ==
    /\ Frame(r)[i].id \in DOMAIN reviews_map[r]
    /\ Frame(r)[i].id \in DOMAIN sentiments_map[r]

\* C10 (enrichment fault tolerance): no failure of the review provider or of the
\* sentiment provider ends the request in an error; the loop reaches every
\* candidate of the frame, and once it is over every candidate has a review list
\* and a sentiment result, which the scored products carry.
C10_EnrichmentTolerant ==
    \A r \in CompareReq :
        /\ pc[r] # "Failed-Error"
        /\ pc[r] \in {"reviews", "sentiment"} =>
              /\ idx[r] \in 1 .. Len(Frame(r))
              /\ \A i \in 1 .. (idx[r] - 1) : Enriched(r, i)
        /\ pc[r] = "recommend" =>
              /\ \A i \in 1 .. Len(Frame(r)) : Enriched(r, i)
              /\ Len(scored[r]) = Len(Frame(r))
              /\ \A i \in 1 .. Len(scored[r]) :
                    /\ scored[r][i].sentiment # None
                    /\ scored[r][i].reviews = reviews_map[r][scored[r][i].id]

\* The loop is over for a frame of two candidates: the review fetch of an Amazon
\* candidate raised (it carries mock reviews) and a sentiment call failed (a
\* candidate carries the rating fallback).
C10_Witness ==
    \E r \in CompareReq :
        /\ pc[r] = "recommend"
        /\ ~use_mock[r]
        /\ Len(Frame(r)) >= 2
        /\ \E i \in 1 .. Len(Frame(r)) :
              /\ Frame(r)[i].source = "amazon"
              /\ reviews_map[r][Frame(r)[i].id] # <<>>
              /\ reviews_map[r][Frame(r)[i].id][1].rid <= 10
        /\ \E i \in 1 .. Len(Frame(r)) :
              sentiments_map[r][Frame(r)[i].id].origin = "fallback"

\* ------------------------------------------------------------------------ C11
\* The review fetch of candidate i of request r's frame failed: the request is
\* live, the candidate is an Amazon one, and it carries no review (the fetch met
\* an HTTP error) or mock reviews (the fetch raised).
ReviewFetchFailed(r, i) ==
    /\ ~use_mock[r]
    /\ Frame(r)[i].source = "amazon"
    /\ \/ reviews_map[r][Frame(r)[i].id] = <<>>
       \/ reviews_map[r][Frame(r)[i].id][1].rid <= 10

\* The sentiment analysis of candidate i failed: it carries the fallback result.
SentimentFailed(r, i) ==
    sentiments_map[r][Frame(r)[i].id].origin \in {"fallback", "fallback_empty"}

\* Sentiment s is the one computed from the average rating of the reviews alone:
\* positive from 4.0, neutral from 2.5, negative below, score (avg - 2.5) / 2.5.
RatingDerived(reviews, s) ==
    LET n == Len(reviews)
        total == SumSeq([i \in 1 .. n |-> reviews[i].rating])
    IN  /\ s.overall_sentiment = IF total >= 40 * n THEN "positive"
                                 ELSE IF total >= 25 * n THEN "neutral"
                                 ELSE "negative"
        /\ 25 * n * s.sentiment_score = 100 * (total - 25 * n)
        /\ s.sentiment_score \in -100 .. 100

\* C11 (degraded sentiment is rating-derived): once the loop is over, a candidate
\* whose review fetch or sentiment analysis failed, and which has reviews to
\* average, carries the sentiment computed from its average rating alone.
C11_DegradedSentiment ==
    \A r \in CompareReq :
        pc[r] = "recommend" =>
            \A i \in 1 .. Len(Frame(r)) :
                /\ ReviewFetchFailed(r, i) \/ SentimentFailed(r, i)
                /\ reviews_map[r][Frame(r)[i].id] # <<>>
                => RatingDerived(reviews_map[r][Frame(r)[i].id],
                                 sentiments_map[r][Frame(r)[i].id])

\* ------------------------------------------------------------------------ C12
\* C12 (recommendation fallback): the recommendation step of a fresh comparison
\* always ends in the fresh response, whatever the text-generation provider
\* does; when the provider failed, the recommendation is the templated sentence
\* and the title it names is the title of the product returned as best_value.
C12_RecommendationFallback ==
    [][\A r \in CompareReq :
          pc[r] = "recommend" /\ pc'[r] # "recommend" =>
              /\ pc'[r] = "Served-Fresh"
              /\ response'[r].status = "Served-Fresh"
              /\ response'[r].best_value # None
              /\ response'[r].recommendation.kind \in {"gemini", "template"}
              /\ response'[r].recommendation.kind = "template" =>
                    response'[r].recommendation.title
                        = Some(response'[r].best_value[1].title)]_vars

\* A fresh response over two candidates of different titles whose recommendation
\* is the templated sentence.
C12_Witness ==
    \E r \in CompareReq :
        /\ pc[r] = "Served-Fresh"
        /\ response[r].recommendation.kind = "template"
        /\ Len(response[r].products) >= 2
        /\ response[r].products[1].title # response[r].products[2].title

\* ------------------------------------------------------------------------ C13
\* The conditions under which the cache store fails.
StoreFailures == StoreConds \ {"up"}

\* Under every failure of the store each cache operation, called by request r on
\* its own key, returns its no-op value and does not raise.
CacheOpsAreNoOps(r, prefix, identifier) ==
    \A cond \in StoreFailures :
        /\ ~IsConnectedRaises(redisClient, cond)
        /\ CacheGet(redisClient, cond, redisStore, prefix, identifier) = None
        /\ CacheSet(redisClient, cond, redisStore, prefix, identifier, "v") = redisStore
        /\ ~CacheSetOk(redisClient, cond)
        /\ CacheDelete(redisClient, cond, redisStore, prefix, identifier)
              = [store |-> redisStore, deleted |-> FALSE]
        /\ CacheClearPrefix(redisClient, cond, redisStore, prefix)
              = [store |-> redisStore, deleted |-> 0]
        /\ CacheGetStats(redisClient, cond) = [connected |-> FALSE]

\* C13 (cache unavailability is invisible): whatever way the cache store fails,
\* get, set, delete, clear_prefix and get_stats return absent, False, False, 0 and
\* not-connected without raising; a request's cache lookup never ends it in an
\* error, and the cache write of a request whose search succeeded never keeps it
\* from being answered as Served-Fresh.
C13_CacheFailureInvisible ==
    /\ [](\A r \in CompareReq : CacheOpsAreNoOps(r, "compare", CompareKey(r)))
    /\ [](\A r \in SearchReq : CacheOpsAreNoOps(r, "search", SearchKey(r)))
    /\ [][\A r \in Req :
            /\ pc[r] = "waiting" /\ pc'[r] # "waiting" =>
                  pc'[r] \in {"gather", "Served-Cached"}
            /\ pc[r] = "recommend" /\ pc'[r] # "recommend" =>
                  /\ pc'[r] = "Served-Fresh"
                  /\ ~response'[r].cached
            /\ /\ r \in SearchReq
               /\ pc[r] = "gather" /\ pc'[r] # "gather"
               /\ ~SearchAll(arrivals[r].sources, task[r]).raised
               => /\ pc'[r] = "Served-Fresh"
                  /\ ~response'[r].cached]_vars

\* Two requests for the same comparison were both answered fresh, the second
\* after the first one's cache write, and the store holds nothing.
C13_Witness ==
    /\ \A r \in Req : r \in CompareReq /\ pc[r] = "Served-Fresh"
    /\ CompareKey(1) = CompareKey(2)
    /\ afterFresh[2] \/ afterFresh[1]
    /\ redisStore = <<>>

\* ------------------------------------------------------------------------ C14
\* The number of times source s occurs in a `sources` list.
Occurrences(sources, s) == Len(SelectSeq(sources, LAMBDA x : x = s))

\* The set of sources a `sources` list names.
SourceSet(sources) == {sources[i] : i \in 1 .. Len(sources)}

\* Requests p and q of one endpoint agree on everything but their sources.
SameButSources(p, q) ==
    /\ p.endpoint = q.endpoint
    /\ p.query = q.query
    /\ p.min_price = q.min_price
    /\ p.max_price = q.max_price
    /\ p.limit = q.limit

\* C14 (cache key determinism): the key is a function of the query, the
\* SET of sources, the price bounds and the limit; requests that agree on these,
\* whatever the order and the multiplicity of their sources, get the same key,
\* and requests that differ in one of them get different keys.
C14_KeyOfSourceSet ==
    applied.op = "cache_key" /\ applied.result # None =>
        \A q \in KeyParams :
            q.endpoint = applied.params.endpoint =>
                (CacheKeyOf(q) = applied.result[1]
                    <=> /\ SameButSources(applied.params, q)
                        /\ SourceSet(q.sources) = SourceSet(applied.params.sources))

\* What the key computation guarantees: the key is a function of the query, the
\* sources with their multiplicities (in any order), the price bounds and the
\* limit; requests that agree on these get the same key, requests that differ in
\* one of them, or in how many times a source is named, get different keys.
C14_KeyOfSourceBag ==
    applied.op = "cache_key" /\ applied.result # None =>
        \A q \in KeyParams :
            q.endpoint = applied.params.endpoint =>
                (CacheKeyOf(q) = applied.result[1]
                    <=> /\ SameButSources(applied.params, q)
                        /\ \A s \in Sources :
                              Occurrences(q.sources, s)
                                  = Occurrences(applied.params.sources, s))

\* A key was computed for sources sent in an order that is not the sorted one,
\* and a request naming the same sources in another order is among the inputs.
C14_Witness ==
    /\ applied.op = "cache_key"
    /\ applied.result # None
    /\ applied.params.sources = <<"ebay", "amazon">>
    /\ \E q \in KeyParams :
          /\ q.sources = <<"amazon", "ebay">>
          /\ SameButSources(applied.params, q)

\* ------------------------------------------------------------------------ C15
\* Request r is in flight: its handler has looked its key up in the cache and has
\* not answered yet (a compare request writes the key when it answers).
BetweenLookupAndAnswer(r) ==
    /\ arrivals[r].endpoint # "none"
    /\ pc[r] \in {"gather", "reviews", "sentiment", "recommend"}

\* The cache entry request r reads and writes: the prefix and the identifier its
\* handler passes to cache.get and cache.set.
EntryOf(r) ==
    IF arrivals[r].endpoint = "compare" THEN MakeKey("compare", CompareKey(r))
    ELSE MakeKey("search", SearchKey(r))

FrameIds(r, n) == {Frame(r)[i].id : i \in 1 .. n}

InScoreRange(x) == x \in 0 .. 1000

\* C17 (score ranges): every candidate score_products returns has its price,
\* review, quality and value score in [0, 10], whatever the ratings in [0, 5],
\* the review counts, the sentiment scores in [-1, 1] and the quality indicators
\* in [0, 1] it was given; so has each result of calculate_review_score,
\* calculate_quality_score and calculate_value_score on such arguments.
C17_ScoresInRange ==
    applied.result # None =>
        /\ applied.op = "score_products" =>
              /\ Len(applied.result[1]) = Len(applied.params.products)
              /\ \A i \in 1 .. Len(applied.result[1]) :
                    /\ InScoreRange(applied.result[1][i].price_score)
                    /\ InScoreRange(applied.result[1][i].review_score)
                    /\ InScoreRange(applied.result[1][i].quality_score)
                    /\ InScoreRange(applied.result[1][i].value_score)
        /\ applied.op \in {"calculate_review_score", "calculate_quality_score",
                           "calculate_value_score"} =>
              InScoreRange(applied.result[1])

\* score_products returned two candidates; one has rating 5.0 with 2500 reviews
\* and a sentiment of 1.0 (11.5 + 0.5 before the clamp) and quality indicators.
C17_Witness ==
    /\ applied.op = "score_products"
    /\ applied.result # None
    /\ Len(applied.result[1]) = 2
    /\ \E i \in 1 .. 2 :
          /\ applied.result[1][i].rating = Some(50)
          /\ applied.result[1][i].review_count = Some(2500)
          /\ applied.result[1][i].sentiment # None
          /\ applied.result[1][i].sentiment[1].sentiment_score = 100
          /\ applied.params.products[applied.result[1][i].id].quality_indicators # None

\* ------------------------------------------------------------------------ C18
\* C18 (value score weights): the value score is price * 0.35 + review * 0.35 +
\* quality * 0.30 rounded to two decimals, that is, a hundredth at most half a
\* hundredth away from the weighted sum; the weights sum to 1, so that three
\* equal scores s give s, as (10, 10, 10), (0, 0, 0) and (5, 5, 5) do.
C18_ValueScoreWeights ==
    applied.op = "calculate_value_score" /\ applied.result # None =>
        LET p == applied.params.price_score
            r == applied.params.review_score
            q == applied.params.quality_score
            v == applied.result[1]
            weighted == 35 * p + 35 * r + 30 * q
        IN  /\ PRICE_WEIGHT = 35 /\ REVIEW_WEIGHT = 35 /\ QUALITY_WEIGHT = 30
            /\ PRICE_WEIGHT + REVIEW_WEIGHT + QUALITY_WEIGHT = 100
            /\ 2 * (100 * v - weighted) \in -100 .. 100
            /\ p = r /\ r = q => v = p

\* calculate_value_score returned 5.0 for (5.0, 5.0, 5.0).
C18_Witness ==
    /\ applied.op = "calculate_value_score"
    /\ applied.params = [price_score |-> 500, review_score |-> 500, quality_score |-> 500]
    /\ applied.result = Some(500)

\* ------------------------------------------------------------------------ C19
\* The prices of the products given to score_products in one call.
FramePrices(f) == {f[i].price : i \in 1 .. Len(f)}

\* C19 (price score within a frame): when all the candidates scored together have
\* the same price, each has price score 7.5; otherwise the candidates at the
\* lowest price of the call have 10.0 and those at the highest have 0.0, the
\* lowest and the highest being taken over the candidates of that call.
C19_FramePriceScore ==
    applied.op = "score_products" /\ applied.result # None =>
        LET prices == FramePrices(applied.params.products)
            out == applied.result[1]
        IN  \A i \in 1 .. Len(out) :
                /\ out[i].price = applied.params.products[out[i].id].price
                /\ IF Cardinality(prices) = 1
                   THEN out[i].price_score = 750
                   ELSE /\ (\A x \in prices : out[i].price <= x) => out[i].price_score = 1000
                        /\ (\A x \in prices : out[i].price >= x) => out[i].price_score = 0

\* score_products returned two candidates of different prices, with price scores
\* 10.0 and 0.0.
C19_Witness ==
    /\ applied.op = "score_products"
    /\ applied.result # None
    /\ Len(applied.result[1]) = 2
    /\ applied.result[1][1].price # applied.result[1][2].price
    /\ {applied.result[1][1].price_score, applied.result[1][2].price_score} = {0, 1000}

\* ------------------------------------------------------------------------ C20
\* The volume thresholds a review count has reached, by their number.
VolumeTier(count) == Cardinality({t \in {10, 100, 500, 1000} : count >= t})

\* The review counts that have reached more volume thresholds than `count`.
CountsAbove(count) ==
    {c \in {x[1] : x \in CountInputs \ {None}} : VolumeTier(c) > VolumeTier(count)}

\* C20 (review score and review volume): for every fixed rating and sentiment the
\* review score increases strictly when the review count crosses a volume
\* threshold (10, 100, 500, 1000).
C20_StrictAcrossThresholds ==
    /\ applied.op = "calculate_review_score"
    /\ applied.result # None
    /\ applied.params.review_count # None
    => \A c \in CountsAbove(applied.params.review_count[1]) :
          calculate_review_score(applied.params.rating, Some(c), applied.params.sentiment)
              > applied.result[1]

\* C20 amended: for every fixed rating and sentiment the review score never
\* decreases when the review count crosses a volume threshold, and it increases
\* strictly when the rating is absent or at least 0.5 and neither score is
\* clamped (the lower one is above 0 and the higher one below 10).
C20_IncreaseUnlessClamped ==
    /\ applied.op = "calculate_review_score"
    /\ applied.result # None
    /\ applied.params.review_count # None
    => \A c \in CountsAbove(applied.params.review_count[1]) :
          LET higher == calculate_review_score(applied.params.rating, Some(c),
                                               applied.params.sentiment)
          IN  /\ higher >= applied.result[1]
              /\ /\ applied.params.rating = None \/ applied.params.rating[1] >= 5
                 /\ applied.result[1] > 0
                 /\ higher < 1000
                 => higher > applied.result[1]

\* calculate_review_score returned 7.2 for rating 4.0 with 9 reviews and no
\* sentiment; with 1000 reviews it gives 9.2.
C20_Witness ==
    /\ applied.op = "calculate_review_score"
    /\ applied.params = [rating |-> Some(40), review_count |-> Some(9), sentiment |-> None]
    /\ applied.result = Some(720)
    /\ 1000 \in CountsAbove(9)
    /\ calculate_review_score(Some(40), Some(1000), None) = 920

\* ------------------------------------------------------------------------ C21
\* The rating base of the review score in hundredths: (rating / 5) * 10, or 5.0.
RatingBase(rating) == IF rating = None THEN 500 ELSE 20 * rating[1]

\* The review score, in hundredths, that multiplier `modifier` (in hundredths)
\* gives the applied call: base * modifier plus half the sentiment score,
\* clamped to [0, 10], to the nearest hundredth.
ReviewScoreUnder(modifier, score) ==
    LET p == applied.params
        adj == IF p.sentiment = None THEN 0 ELSE 50 * p.sentiment[1].sentiment_score
        raw == RatingBase(p.rating) * modifier + adj
        clamped == IF raw < 0 THEN 0 ELSE IF raw > 100000 THEN 100000 ELSE raw
    IN  2 * (100 * score - clamped) \in -100 .. 100

\* The multiplier table with 0.90 for a count below 10 and for no count.
TableAbsentLow(review_count) ==
    IF review_count = None THEN 90
    ELSE IF review_count[1] >= 1000 THEN 115
    ELSE IF review_count[1] >= 500 THEN 110
    ELSE IF review_count[1] >= 100 THEN 105
    ELSE IF review_count[1] >= 10 THEN 100
    ELSE 90

\* The multiplier table with 0.90 for a count below 10 and 1.00 for no count.
TableAbsentNeutral(review_count) ==
    IF review_count = None THEN 100 ELSE TableAbsentLow(review_count)

\* C21 (volume-confidence multiplier table): calculate_review_score multiplies
\* the rating base, (rating / 5) * 10 or 5.0 without a rating, by 1.15 from 1000
\* reviews, 1.10 from 500, 1.05 from 100, 1.00 from 10, and 0.90 in every other
\* case, a count below 10 or no count at all.
C21_MultiplierTable ==
    applied.op = "calculate_review_score" /\ applied.result # None =>
        ReviewScoreUnder(TableAbsentLow(applied.params.review_count), applied.result[1])

\* C21 amended: the multiplier is 1.15 from 1000 reviews, 1.10 from 500, 1.05
\* from 100, 1.00 from 10, 0.90 for a count below 10, and 1.00 when there is no
\* review count; the base is (rating / 5) * 10, or 5.0 without a rating.
C21_MultiplierTableNoCount ==
    applied.op = "calculate_review_score" /\ applied.result # None =>
        ReviewScoreUnder(TableAbsentNeutral(applied.params.review_count),
                         applied.result[1])

\* calculate_review_score returned 5.0 without rating, review count and sentiment.
C21_Witness ==
    /\ applied.op = "calculate_review_score"
    /\ applied.params = [rating |-> None, review_count |-> None, sentiment |-> None]
    /\ applied.result = Some(500)

\* ------------------------------------------------------------------------ C22
\* The quality indicators of the applied call that calculate_quality_score reads.
ReadIndicators ==
    IF applied.params.quality_indicators = None THEN {}
    ELSE {k \in QualityKeys : k \in DOMAIN applied.params.quality_indicators[1]}

\* The sum of a set of at most four of those indicators' values.
IndicatorTotal(keys) ==
    LET q == applied.params.quality_indicators[1]
        V(k) == IF k \in keys THEN q[k] ELSE 0
    IN  V("durability") + V("performance") + V("build_quality") + V("value_for_money")

\* C22 (quality score): the quality score is the unweighted mean, to the nearest
\* hundredth, of the signals that are available among the sentiment score mapped
\* from [-1, 1] to [0, 10], pros / (pros + cons) * 10 when there are pros or
\* cons, and the mean of the present quality indicators times 10; each signal
\* counts whenever its own inputs are there, whatever the other two, and the
\* score is 5.0 when none is.
C22_QualityMean ==
    applied.op = "calculate_quality_score" /\ applied.result # None =>
        LET s == applied.params.sentiment
            hasSentiment == s # None
            procon == IF hasSentiment THEN s[1].pros + s[1].cons ELSE 0
            hasRatio == procon > 0
            keys == ReadIndicators
            hasIndicators == keys # {}
            dR == IF hasRatio THEN procon ELSE 1
            dI == IF hasIndicators THEN Cardinality(keys) ELSE 1
            signals == (IF hasSentiment THEN 1 ELSE 0) + (IF hasRatio THEN 1 ELSE 0)
                          + (IF hasIndicators THEN 1 ELSE 0)
            total == (IF hasSentiment THEN (s[1].sentiment_score + 100) * 5 * dR * dI ELSE 0)
                        + (IF hasRatio THEN 1000 * s[1].pros * dI ELSE 0)
                        + (IF hasIndicators THEN 10 * IndicatorTotal(keys) * dR ELSE 0)
        IN  IF signals = 0 THEN applied.result[1] = 500
            ELSE 2 * (applied.result[1] * dR * dI * signals - total)
                    \in -(dR * dI * signals) .. (dR * dI * signals)

\* calculate_quality_score averaged three signals: sentiment 0.5 (7.5), three
\* pros and one con (7.5) and one read indicator of 0.5 (5.0), giving 6.67.
C22_Witness ==
    /\ applied.op = "calculate_quality_score"
    /\ applied.params.sentiment # None
    /\ applied.params.sentiment[1].sentiment_score = 50
    /\ applied.params.sentiment[1].pros = 3 /\ applied.params.sentiment[1].cons = 1
    /\ ReadIndicators = {"performance"}
    /\ applied.result = Some(667)

\* ------------------------------------------------------------------------ C23
\* C23 (score_products keeps and orders the candidates): the list returned has
\* the length of the list given, holds each candidate given exactly once, with
\* its own price, rating and review count, and is ordered by non-increasing
\* value score; an empty list gives an empty list.
C23_SameCandidatesSorted ==
    applied.op = "score_products" /\ applied.result # None =>
        LET given == applied.params.products
            out == applied.result[1]
        IN  /\ Len(out) = Len(given)
            /\ given = <<>> => out = <<>>
            /\ {out[i].id : i \in 1 .. Len(out)} = 1 .. Len(given)
            /\ \A i \in 1 .. Len(out) :
                  /\ out[i].price = given[out[i].id].price
                  /\ out[i].rating = given[out[i].id].rating
                  /\ out[i].review_count = given[out[i].id].review_count
            /\ \A i \in 1 .. (Len(out) - 1) : out[i].value_score >= out[i + 1].value_score

\* score_products returned two candidates in the reverse of the order given,
\* the second one given having the higher value score.
C23_Witness ==
    /\ applied.op = "score_products"
    /\ applied.result # None
    /\ Len(applied.result[1]) = 2
    /\ applied.result[1][1].id = 2
    /\ applied.result[1][1].value_score > applied.result[1][2].value_score

\* score_products returned an empty list for an empty list.
C23_WitnessEmpty ==
    /\ applied.op = "score_products"
    /\ applied.params.products = <<>>
    /\ applied.result = Some(<<>>)

\* ------------------------------------------------------------------------ C24
\* `best` is present, is the element of `given` at the position its id names,
\* attains the largest of keys over the list, and no earlier element does.
FirstBest(best, given, keys) ==
    /\ best # None
    /\ best[1].id \in 1 .. Len(given)
    /\ best[1] = given[best[1].id]
    /\ \A j \in 1 .. Len(given) : keys[j] <= keys[best[1].id]
    /\ \A j \in 1 .. (best[1].id - 1) : keys[j] < keys[best[1].id]

\* C24 (get_best_products): on an empty list best_value, best_price and
\* best_quality are all absent; on a non-empty list each is present, is an
\* element of the list, has the largest value, price or quality score of the
\* list, and is the first of the elements that have it.
C24_BestProducts ==
    applied.op = "get_best_products" /\ applied.result # None =>
        LET given == applied.params.products
            out == applied.result[1]
            n == Len(given)
        IN  IF given = <<>>
            THEN out = [best_value |-> None, best_price |-> None, best_quality |-> None]
            ELSE /\ FirstBest(out.best_value, given, [i \in 1 .. n |-> given[i].value_score])
                 /\ FirstBest(out.best_price, given, [i \in 1 .. n |-> given[i].price_score])
                 /\ FirstBest(out.best_quality, given,
                              [i \in 1 .. n |-> given[i].quality_score])

\* get_best_products was given three products, the last two tying for the
\* largest value score, and returned the second as best_value.
C24_Witness ==
    /\ applied.op = "get_best_products"
    /\ applied.result # None
    /\ Len(applied.params.products) = 3
    /\ applied.params.products[1].value_score = 0
    /\ applied.params.products[2].value_score = 500
    /\ applied.params.products[3].value_score = 500
    /\ applied.result[1].best_value[1].id = 2

\* ------------------------------------------------------------------------ C25
\* The text holds no digit.
NoDigit(text) == \A i \in 1 .. Len(text) : text[i] \notin Range(DigitChars)

\* C25 (normalize_price): for every price text that holds no digit - the empty
\* text, "Free", a text of symbols, separators and signs only - normalize_price
\* has a result, and the amount in it is absent.
C25_NoDigitNoAmount ==
    applied.op = "normalize_price" /\ NoDigit(applied.params.price_str) =>
        /\ normalize_price(applied.params.price_str, applied.params.target_currency).price
               = None
        /\ applied.result # None => applied.result[1].price = None

\* normalize_price returned for "$-,." - a currency symbol, a sign and both
\* separators, which reach float() as "." - and for "Free".
C25_Witness ==
    /\ applied.op = "normalize_price"
    /\ applied.params.price_str \in {<<"$", "-", ",", ".">>, <<"F", "r", "e", "e">>}
    /\ applied.result # None
    /\ applied.result[1].price = None

\* ------------------------------------------------------------------------ C26
\* The digits of the text, in their order.
DigitsOf(text) == SelectSeq(text, LAMBDA c : c \in Range(DigitChars))

\* The number the text writes when the last `point` in it is the decimal point
\* and the other separators are stripped.
ReadWithPoint(text, point) ==
    Number(DigitsValue(DigitsOf(text)),
           Len(DigitsOf(SubSeq(text, RFind(text, point) + 1, Len(text)))))

\* The number the text writes when every separator in it is stripped.
ReadStripped(text) == Number(DigitsValue(DigitsOf(text)), 0)

\* The number of digits, and nothing else, after the only comma of the text.
DigitsAfterComma(text) ==
    IF \A i \in (RFind(text, ",") + 1) .. Len(text) : text[i] \in Range(DigitChars)
    THEN Len(text) - RFind(text, ",")
    ELSE 0

\* C26 (parse_numeric_value): in a text of digits, '.' and ',' that holds a
\* digit: when both separators occur, the one that occurs last is the decimal
\* point and the other is stripped (read here where that last separator occurs
\* once); one comma and no dot is a decimal point exactly when exactly two
\* digits follow it and is stripped otherwise; several of one separator and
\* none of the other are all stripped.  "1,299.99" is 1299.99, "1.234,56" is
\* 1234.56, "99,50" is 99.50 and "1,234" is 1234.
C26_Separators ==
    applied.op = "parse_numeric_value" /\ applied.result # None =>
        LET text == applied.params.value_str
            out == applied.result[1]
            commas == Count(text, ",")
            dots == Count(text, ".")
        IN  /\ (/\ \A i \in 1 .. Len(text) : text[i] \in Range(DigitChars) \cup {".", ","}
                /\ DigitsOf(text) # <<>>) =>
                  /\ dots >= 1 /\ commas >= 1 /\ RFind(text, ".") > RFind(text, ",") /\ dots = 1
                        => out = Some(ReadWithPoint(text, "."))
                  /\ dots >= 1 /\ commas >= 1 /\ RFind(text, ",") > RFind(text, ".") /\ commas = 1
                        => out = Some(ReadWithPoint(text, ","))
                  /\ commas = 1 /\ dots = 0 /\ DigitsAfterComma(text) = 2
                        => out = Some(ReadWithPoint(text, ","))
                  /\ commas = 1 /\ dots = 0 /\ DigitsAfterComma(text) # 2
                        => out = Some(ReadStripped(text))
                  /\ (commas > 1 /\ dots = 0) \/ (dots > 1 /\ commas = 0)
                        => out = Some(ReadStripped(text))
            /\ text = <<"1", ",", "2", "9", "9", ".", "9", "9">>
                  => out = Some([mant |-> 129999, exp |-> 2])
            /\ text = <<"1", ".", "2", "3", "4", ",", "5", "6">>
                  => out = Some([mant |-> 123456, exp |-> 2])
            /\ text = <<"9", "9", ",", "5", "0">> => out = Some([mant |-> 995, exp |-> 1])
            /\ text = <<"1", ",", "2", "3", "4">> => out = Some([mant |-> 1234, exp |-> 0])

\* parse_numeric_value read "99,50", one comma with two digits after it, as 99.5.
C26_Witness ==
    /\ applied.op = "parse_numeric_value"
    /\ applied.params.value_str = <<"9", "9", ",", "5", "0">>
    /\ applied.result = Some(Some([mant |-> 995, exp |-> 1]))

\* parse_numeric_value read "1.234,56", both separators and the comma last, as
\* 1234.56.
C26_WitnessMixed ==
    /\ applied.op = "parse_numeric_value"
    /\ applied.params.value_str = <<"1", ".", "2", "3", "4", ",", "5", "6">>
    /\ applied.result = Some(Some([mant |-> 123456, exp |-> 2]))

\* ------------------------------------------------------------------------ C27
\* The symbols of the table that occur in the text and are not a part of a
\* longer symbol that occurs in it: "C$" and not "$" in "C$99.99".
SymbolsIn(text) ==
    {k \in 1 .. Len(CURRENCY_SYMBOLS) :
        /\ HasSub(text, CURRENCY_SYMBOLS[k].symbol)
        /\ \A j \in 1 .. Len(CURRENCY_SYMBOLS) :
              /\ j # k
              /\ HasSub(text, CURRENCY_SYMBOLS[j].symbol)
              => ~HasSub(CURRENCY_SYMBOLS[j].symbol, CURRENCY_SYMBOLS[k].symbol)}

\* The text holds no currency symbol.
NoMarker(text) ==
    \A k \in 1 .. Len(CURRENCY_SYMBOLS) : ~HasSub(text, CURRENCY_SYMBOLS[k].symbol)

\* C27 (detect_currency): a text that holds one known symbol gets the currency
\* of that symbol, the symbols of several characters included ("C$" is CAD,
\* "A$" is AUD, "R$" is BRL, "$" is USD), and the text left for numeric parsing
\* holds no currency marker; a text without a symbol gets the currency of the
\* three-letter ISO code it starts with, and otherwise USD.
C27_DetectCurrency ==
    applied.op = "detect_currency" /\ applied.result # None =>
        LET text == clean_price_string(applied.params.price_str)
            out == applied.result[1]
            codes == {k \in 1 .. Len(IsoCodes) : StartsWith(text, IsoCodes[k].symbol)}
        IN  /\ \A k \in SymbolsIn(text) :
                  SymbolsIn(text) = {k} =>
                      /\ out.code = CURRENCY_SYMBOLS[k].code
                      /\ NoMarker(out.cleaned)
            /\ SymbolsIn(text) = {} =>
                  /\ \A k \in codes : out.code = IsoCodes[k].code
                  /\ codes = {} => out.code = "USD"

\* detect_currency found the euro sign of "€99,50" and left "99,50", and found
\* the leading code of "USD 12" and left "12".
C27_Witness ==
    /\ applied.op = "detect_currency"
    /\ \/ /\ applied.params.price_str = <<"€", "9", "9", ",", "5", "0">>
          /\ applied.result = Some([code |-> "EUR", cleaned |-> <<"9", "9", ",", "5", "0">>])
       \/ /\ applied.params.price_str = <<"U", "S", "D", " ", "1", "2">>
          /\ applied.result = Some([code |-> "USD", cleaned |-> <<"1", "2">>])

\* ------------------------------------------------------------------------ C28
\* C28 (calculate_discount_percentage): the result is 0 when the original price
\* is not positive, the current price is negative, or the current price is not
\* below the original; otherwise it is (original - current) / original * 100
\* rounded to one decimal, that is within half a tenth of a percent of it; the
\* result lies in [0, 100].  Prices in cents, the result in tenths of a percent.
C28_DiscountPercentage ==
    applied.op = "calculate_discount_percentage" /\ applied.result # None =>
        LET original == applied.params.original_price
            current == applied.params.current_price
            out == applied.result[1]
            exact == (original - current) * 1000
        IN  /\ original <= 0 \/ current < 0 \/ current >= original => out = 0
            /\ ~(original <= 0 \/ current < 0 \/ current >= original) =>
                  /\ 2 * (out * original - exact) <= original
                  /\ 2 * (exact - out * original) <= original
            /\ out >= 0
            /\ out <= 1000

\* A discount was computed and rounded: 29.99 down to 9.99 is 66.7 percent,
\* and a negative current price gave 0.
C28_Witness ==
    /\ applied.op = "calculate_discount_percentage"
    /\ \/ /\ applied.params = [original_price |-> 2999, current_price |-> 999]
          /\ applied.result = Some(667)
       \/ /\ applied.params = [original_price |-> 1000, current_price |-> -500]
          /\ applied.result = Some(0)

\* ------------------------------------------------------------------------ C29
\* The first `limit` products of the list request r holds.
FirstLimit(r) == SubSeq(products[r], 1, Min2(arrivals[r].limit, Len(products[r])))

\* The products of the list are the same candidates as those of `frame`.
SameCandidates(list, frame) ==
    /\ Len(list) = Len(frame)
    /\ {list[i].id : i \in 1 .. Len(list)} = {frame[i].id : i \in 1 .. Len(frame)}

\* The live list request r holds has at least `limit` products of source s.
ReturnsLimit(r, s) ==
    /\ ~use_mock[r]
    /\ Cardinality({i \in 1 .. Len(products[r]) : products[r][i].source = s})
          >= arrivals[r].limit

\* The frame of request r through the handler: the list merged from live
\* results is in the order amazon, ebay, walmart whatever the order of the
\* request; the products enriched, scored and returned are the first `limit`
\* products of the list; and when source `first[r]` has `limit` products in the
\* list, every product scored and returned is of that source.
FrameSteps(first) ==
    \A r \in CompareReq :
        /\ LeavesGather(r) /\ pc'[r] = "reviews" /\ ~use_mock'[r] =>
              products'[r] = SucceededConcat(arrivals[r].sources, task[r])
        /\ pc[r] = "reviews" /\ pc'[r] = "sentiment" =>
              DOMAIN reviews_map'[r] \subseteq {FirstLimit(r)[i].id : i \in 1 .. idx[r]}
        /\ pc[r] = "sentiment" /\ pc'[r] = "recommend" =>
              SameCandidates(scored'[r], FirstLimit(r))
        /\ pc[r] = "recommend" /\ pc'[r] = "Served-Fresh" =>
              /\ SameCandidates(response'[r].products, FirstLimit(r))
              /\ arrivals[r].sources # <<>> /\ ReturnsLimit(r, first[r]) =>
                    \A i \in 1 .. Len(response'[r].products) :
                        /\ response'[r].products[i].source = first[r]
                        /\ scored[r][i].source = first[r]

C30_BestsAmongReturned ==
    \A r \in CompareReq :
        response[r].status = "Served-Fresh" /\ response[r].products # <<>> =>
            /\ response[r].best_value = Some(response[r].products[1])
            /\ \A best \in {response[r].best_value, response[r].best_price,
                            response[r].best_quality} :
                  /\ best # None
                  /\ best[1] \in Range(response[r].products)

\* A fresh compare response returned two candidates; best_value is the first of
\* them and best_quality is the second.
C30_Witness ==
    \E r \in CompareReq :
        /\ response[r].status = "Served-Fresh"
        /\ Len(response[r].products) = 2
        /\ response[r].best_value = Some(response[r].products[1])
        /\ response[r].best_quality = Some(response[r].products[2])
        /\ response[r].products[1] # response[r].products[2]

====
